---- MODULE Spec2Model ----
(***************************************************************************)
(* Markdown diff -> ProseMirror transform.                                 *)
(*                                                                         *)
(* Strings are sequences of one-character strings, so that the regular     *)
(* expressions of the parser are evaluated character by character.  An     *)
(* optional field (a TypeScript x?: T) is <<>> when absent and <<v>> when  *)
(* present.  Tree nodes are objects of a heap (id -> node), so that object *)
(* identity, aliasing and in-place mutation are part of the state.         *)
(***************************************************************************)
EXTENDS Integers, Sequences, FiniteSets, TLC

VARIABLES
  entry,    \* the entry point under execution
  heap,     \* the object store: node id -> node object
  args,     \* per invocation: the arguments it was called with
  pc,       \* per invocation: its position ("start", "awaiting", "done")
  locals,   \* per invocation: what it holds across its await
  ret,      \* per invocation: what it returned (<<>> until it returns)
  results   \* what batchTransform returned (<<>> until it returns)

vars == <<entry, heap, args, pc, locals, ret, results>>

(***************************************************************************)
(* Bounds of the model.                                                    *)
(***************************************************************************)
MaxParseLines == 3   \* lines of a text given to parseToBlocks
MaxPieces == 3       \* pieces of a text given to parseInlineMarkdown
MaxLines == 2        \* lines of a Markdown text given to transform
MaxOps == 2          \* operations given to applyOperationsToDocument
MaxBatch == 3        \* requests given to batchTransform
MaxBlocks == 3       \* blocks of a tree given to analyzeDocument

(***************************************************************************)
(* JavaScript strings.                                                     *)
(***************************************************************************)
Some(v) == <<v>>
None == <<>>

\* a const declaration: the body F evaluated with its name bound to v
With(v, F(_)) == F(v)

NL == "\n"

Digits == {"0", "1", "2", "3", "4", "5", "6", "7", "8", "9"}

Letters ==
  {"a", "b", "c", "d", "e", "f", "g", "h", "i", "j", "k", "l", "m", "n", "o",
   "p", "q", "r", "s", "t", "u", "v", "w", "x", "y", "z",
   "A", "B", "C", "D", "E", "F", "G", "H", "I", "J", "K", "L", "M", "N", "O",
   "P", "Q", "R", "S", "T", "U", "V", "W", "X", "Y", "Z"}

\* \s of a regular expression, and what String.prototype.trim strips
IsWhitespace(c) == c \in {" ", "\t", "\n"}

\* \w of a regular expression
IsWordChar(c) == c \in Letters \cup Digits \cup {"_"}

DigitValue(c) ==
  CASE c = "0" -> 0 [] c = "1" -> 1 [] c = "2" -> 2 [] c = "3" -> 3
    [] c = "4" -> 4 [] c = "5" -> 5 [] c = "6" -> 6 [] c = "7" -> 7
    [] c = "8" -> 8 [] c = "9" -> 9

\* parseInt of a non-empty run of decimal digits
RECURSIVE ParseInt(_)
ParseInt(ds) ==
  IF ds = <<>> THEN 0
  ELSE 10 * ParseInt(SubSeq(ds, 1, Len(ds) - 1)) + DigitValue(ds[Len(ds)])

\* s.slice(from) with a 1-based from
Slice(s, from) == SubSeq(s, from, Len(s))

\* 1-based index of the first c in s at or after from; 0 when there is none
IndexOf(s, c, from) ==
  IF \E i \in from..Len(s) : s[i] = c
  THEN CHOOSE i \in from..Len(s) : s[i] = c /\ \A j \in from..(i - 1) : s[j] # c
  ELSE 0

\* length of the longest prefix of s whose characters all satisfy the test
PrefixLen(s, Test(_)) ==
  IF \A i \in 1..Len(s) : Test(s[i]) THEN Len(s)
  ELSE (CHOOSE i \in 1..Len(s) : ~Test(s[i]) /\ \A j \in 1..(i - 1) : Test(s[j])) - 1

StartsWith(s, p) == Len(s) >= Len(p) /\ SubSeq(s, 1, Len(p)) = p

\* markdown.split('\n')
RECURSIVE Split(_)
Split(s) ==
  LET i == IndexOf(s, NL, 1) IN
  IF i = 0 THEN <<s>>
  ELSE <<SubSeq(s, 1, i - 1)>> \o Split(Slice(s, i + 1))

\* lines.join('\n')
RECURSIVE Join(_)
Join(lines) ==
  IF lines = <<>> THEN <<>>
  ELSE IF Len(lines) = 1 THEN lines[1]
  ELSE lines[1] \o <<NL>> \o Join(Tail(lines))

\* s.trim() === ''
TrimIsEmpty(s) == \A i \in 1..Len(s) : IsWhitespace(s[i])

(***************************************************************************)
(* MarkdownParser.identifyBlock: the classification of one line.           *)
(***************************************************************************)
IsHash(c) == c = "#"
IsDigit(c) == c \in Digits
IsRuleChar(c) == c \in {"-", "*", "_"}

BlockInfo(type, level, attrs, startNew) ==
  [type |-> type, level |-> level, attrs |-> attrs, startNew |-> startNew]

\* /^(#{1,6})\s+(.+)$/ : the number of '#' matched, 0 when the line does not match
HeadingMatch(line) ==
  LET k == PrefixLen(line, IsHash) IN
  IF k >= 1 /\ k <= 6 /\ Len(line) >= k + 2 /\ IsWhitespace(line[k + 1])
  THEN k ELSE 0

\* /^\s*[-*+]\s+/
UnorderedListMatch(line) ==
  LET w == PrefixLen(line, IsWhitespace) IN
  /\ Len(line) >= w + 2
  /\ line[w + 1] \in {"-", "*", "+"}
  /\ IsWhitespace(line[w + 2])

\* /^\s*(\d+)\.\s+/ : the digits matched, <<>> when the line does not match
OrderedListMatch(line) ==
  LET w == PrefixLen(line, IsWhitespace)
      d == PrefixLen(Slice(line, w + 1), IsDigit)
  IN IF /\ d >= 1
        /\ Len(line) >= w + d + 2
        /\ line[w + d + 1] = "."
        /\ IsWhitespace(line[w + d + 2])
     THEN SubSeq(line, w + 1, w + d) ELSE <<>>

\* the backquote character (a TLA+ string literal cannot hold it)
Backquote == "BACKQUOTE"

\* the prefix tested by line.startsWith of the code fence
CodeFence == <<Backquote, Backquote, Backquote>>

\* the (\w+)? after the fence: the language tag, <<>> when there is none
FenceLanguage(line) ==
  LET rest == Slice(line, 4) IN SubSeq(rest, 1, PrefixLen(rest, IsWordChar))

\* /^[-*_]{3,}$/
HorizontalRuleMatch(line) ==
  Len(line) >= 3 /\ \A i \in 1..Len(line) : IsRuleChar(line[i])

identifyBlock(line) ==
  IF HeadingMatch(line) > 0
  THEN BlockInfo("heading", Some(HeadingMatch(line)),
                 Some(<< <<"level", HeadingMatch(line)>> >>), TRUE)
  ELSE IF UnorderedListMatch(line)
  THEN BlockInfo("list_item", None, Some(<< <<"listType", "bullet">> >>), FALSE)
  ELSE IF OrderedListMatch(line) # <<>>
  THEN BlockInfo("list_item", None,
                 Some(<< <<"listType", "ordered">>,
                         <<"order", ParseInt(OrderedListMatch(line))>> >>), FALSE)
  ELSE IF StartsWith(line, CodeFence)
  THEN BlockInfo("code_block", None,
                 IF FenceLanguage(line) # <<>>
                 THEN Some(<< <<"language", FenceLanguage(line)>> >>)
                 ELSE Some(<<>>),
                 TRUE)
  ELSE IF StartsWith(line, <<">">>)
  THEN BlockInfo("blockquote", None, None, FALSE)
  ELSE IF TrimIsEmpty(line)
  THEN BlockInfo("empty", None, None, TRUE)
  ELSE IF HorizontalRuleMatch(line)
  THEN BlockInfo("horizontal_rule", None, None, TRUE)
  ELSE BlockInfo("paragraph", None, None, FALSE)

(***************************************************************************)
(* MarkdownParser.parseToBlocks.                                           *)
(***************************************************************************)
\* the block opened by a line (lineIndex is 0-based, as in the code)
NewBlock(info, line, lineIndex) ==
  [type |-> info.type, content |-> <<line>>,
   startLine |-> lineIndex, endLine |-> lineIndex,
   level |-> info.level, attrs |-> info.attrs]

\* the else-branch of the loop: the line joins the open block
ExtendBlockStale(block, line, lineIndex) ==
  [block EXCEPT !.content = Append(@, line)]

ExtendBlock(block, line, lineIndex) ==
  [block EXCEPT !.content = Append(@, line), !.endLine = lineIndex]

\* an iteration that opens a block on a change of type only
ParseLineByTypeOnly(st, line, lineIndex) ==
  With(identifyBlock(line), LAMBDA info :
    IF st.currentBlock = None \/ info.type # st.currentBlock[1].type
    THEN [blocks |-> IF st.currentBlock # None
                     THEN Append(st.blocks, st.currentBlock[1])
                     ELSE st.blocks,
          currentBlock |-> Some(NewBlock(info, line, lineIndex))]
    ELSE [blocks |-> st.blocks,
          currentBlock |-> Some(ExtendBlock(st.currentBlock[1], line, lineIndex))])

\* one iteration of the for loop; st = [blocks, currentBlock (optional)]
ParseLine(st, line, lineIndex) ==
  With(identifyBlock(line), LAMBDA info :
    IF st.currentBlock = None
       \/ info.type # st.currentBlock[1].type
       \/ info.startNew
    THEN [blocks |-> IF st.currentBlock # None
                     THEN Append(st.blocks, st.currentBlock[1])
                     ELSE st.blocks,
          currentBlock |-> Some(NewBlock(info, line, lineIndex))]
    ELSE [blocks |-> st.blocks,
          currentBlock |-> Some(ExtendBlock(st.currentBlock[1], line, lineIndex))])

RECURSIVE ParseLines(_, _, _)
ParseLines(st, lines, lineIndex) ==
  IF lineIndex >= Len(lines) THEN st
  ELSE ParseLines(ParseLine(st, lines[lineIndex + 1], lineIndex), lines,
                  lineIndex + 1)

parseToBlocks(markdown) ==
  With(ParseLines([blocks |-> <<>>, currentBlock |-> None], Split(markdown), 0),
       LAMBDA st : IF st.currentBlock # None
                   THEN Append(st.blocks, st.currentBlock[1])
                   ELSE st.blocks)

(***************************************************************************)
(* MarkdownParser.parseInlineMarkdown.  A token is [type, text, marks]; a  *)
(* mark is [type, attrs].  Each matcher is applied to text.slice(pos) and  *)
(* returns [ok, text, href, length]: the captured groups and the length of *)
(* the whole match.                                                        *)
(***************************************************************************)
NoMatch == [ok |-> FALSE, text |-> <<>>, href |-> <<>>, length |-> 0]

Matched(text, href, length) ==
  [ok |-> TRUE, text |-> text, href |-> href, length |-> length]

\* in a regular expression '.' matches every character but a line terminator
NoNewline(s, from, to) == \A i \in from..to : s[i] # NL

\* /^\*\*(.*?)\*\*/ : the lazy group ends at the first "**" on the same line
StrongMatch(s) ==
  LET Closes(j) == s[j] = "*" /\ s[j + 1] = "*" /\ NoNewline(s, 3, j - 1) IN
  IF StartsWith(s, <<"*", "*">>) /\ \E j \in 3..(Len(s) - 1) : Closes(j)
  THEN LET j == CHOOSE j \in 3..(Len(s) - 1) :
                  Closes(j) /\ \A i \in 3..(j - 1) : ~Closes(i)
       IN Matched(SubSeq(s, 3, j - 1), <<>>, j + 1)
  ELSE NoMatch

\* /^\*(.*?)\*/
EmMatch(s) ==
  LET Closes(j) == s[j] = "*" /\ NoNewline(s, 2, j - 1) IN
  IF StartsWith(s, <<"*">>) /\ \E j \in 2..Len(s) : Closes(j)
  THEN LET j == CHOOSE j \in 2..Len(s) :
                  Closes(j) /\ \A i \in 2..(j - 1) : ~Closes(i)
       IN Matched(SubSeq(s, 2, j - 1), <<>>, j)
  ELSE NoMatch

\* a backquote, one or more characters that are not backquotes, a backquote
CodeMatch(s) ==
  LET j == IndexOf(s, Backquote, 2) IN
  IF StartsWith(s, <<Backquote>>) /\ j >= 3
  THEN Matched(SubSeq(s, 2, j - 1), <<>>, j)
  ELSE NoMatch

\* /^\[([^\]]+)\]\(([^)]+)\)/
LinkMatch(s) ==
  LET j == IndexOf(s, "]", 2)
      k == IF j = 0 THEN 0 ELSE IndexOf(s, ")", j + 2)
  IN IF /\ StartsWith(s, <<"[">>)
        /\ j >= 3
        /\ Len(s) >= j + 1
        /\ s[j + 1] = "("
        /\ k >= j + 3
     THEN Matched(SubSeq(s, 2, j - 1), SubSeq(s, j + 2, k - 1), k)
     ELSE NoMatch

Token(text, marks) == [type |-> "text", text |-> text, marks |-> marks]

Mark(type, attrs) == [type |-> type, attrs |-> attrs]

\* the while loop; pos is 1-based
RECURSIVE InlineTokens(_, _, _)
InlineTokens(text, pos, tokens) ==
  IF pos > Len(text) THEN tokens
  ELSE
    LET s == Slice(text, pos)
        strong == StrongMatch(s)
        em == EmMatch(s)
        code == CodeMatch(s)
        link == LinkMatch(s)
    IN IF strong.ok
       THEN InlineTokens(text, pos + strong.length,
              Append(tokens, Token(strong.text, Some(<<Mark("strong", None)>>))))
       ELSE IF em.ok
       THEN InlineTokens(text, pos + em.length,
              Append(tokens, Token(em.text, Some(<<Mark("em", None)>>))))
       ELSE IF code.ok
       THEN InlineTokens(text, pos + code.length,
              Append(tokens, Token(code.text, Some(<<Mark("code", None)>>))))
       ELSE IF link.ok
       THEN InlineTokens(text, pos + link.length,
              Append(tokens,
                Token(link.text,
                      Some(<<Mark("link", Some(<< <<"href", link.href>> >>))>>))))
       ELSE InlineTokens(text, pos + 1, Append(tokens, Token(<<text[pos]>>, None)))

\* a marksEqual whose element-wise comparison is missing
marksEqualBothAbsent(marks1, marks2) == marks1 = None /\ marks2 = None

\* JSON.stringify(mark1.attrs) === JSON.stringify(mark2.attrs) compares the
\* attrs by keys and values in order, and absent with absent
marksEqual(marks1, marks2) ==
  IF marks1 = None /\ marks2 = None THEN TRUE
  ELSE IF marks1 = None \/ marks2 = None THEN FALSE
  ELSE IF Len(marks1[1]) # Len(marks2[1]) THEN FALSE
  ELSE \A i \in 1..Len(marks1[1]) :
         /\ marks1[1][i].type = marks2[1][i].type
         /\ marks1[1][i].attrs = marks2[1][i].attrs

RECURSIVE MergeTokens(_, _)
MergeTokens(tokens, merged) ==
  IF tokens = <<>> THEN merged
  ELSE
    LET token == Head(tokens)
        n == Len(merged)
    IN IF /\ n > 0
          /\ merged[n].type = "text"
          /\ token.type = "text"
          /\ marksEqual(merged[n].marks, token.marks)
       THEN MergeTokens(Tail(tokens),
              [merged EXCEPT ![n].text = merged[n].text \o token.text])
       ELSE MergeTokens(Tail(tokens), Append(merged, token))

mergeConsecutiveTextTokens(tokens) == MergeTokens(tokens, <<>>)

parseInlineMarkdown(text) ==
  mergeConsecutiveTextTokens(InlineTokens(text, 1, <<>>))

(***************************************************************************)
(* The document tree.  A node object is                                    *)
(*   [type, attrs, ckind, content, text, marks]                            *)
(* where ckind says what the content property holds: "absent", "list" (an  *)
(* array of child references, in content) or "other" (a truthy value that  *)
(* is no array).  NULL is the null reference.  The heap is a sequence, so  *)
(* a fresh object gets the id Len(heap) + 1; objects are never freed.      *)
(***************************************************************************)
NULL == 0

Node(type, attrs, ckind, content, text, marks) ==
  [type |-> type, attrs |-> attrs, ckind |-> ckind, content |-> content,
   text |-> text, marks |-> marks]

\* the value of a null reference in a serialized tree
NullValue == [type |-> "null"]

\* JSON.stringify: the tree below a reference, as a value without identity
RECURSIVE Val(_, _)
Val(h, id) ==
  IF id = NULL THEN NullValue
  ELSE Node(h[id].type, h[id].attrs, h[id].ckind,
            [i \in 1..Len(h[id].content) |-> Val(h, h[id].content[i])],
            h[id].text, h[id].marks)

\* the paths of the non-null nodes of a list of values, in document order;
\* a path starts with the 1-based index of its tree in the list
RECURSIVE PreOrder(_, _)
RECURSIVE PreOrderAll(_, _, _)
PreOrder(v, path) ==
  IF v = NullValue THEN <<>> ELSE <<path>> \o PreOrderAll(v.content, path, 1)

PreOrderAll(vs, path, k) ==
  IF k > Len(vs) THEN <<>>
  ELSE PreOrder(vs[k], Append(path, k)) \o PreOrderAll(vs, path, k + 1)

RECURSIVE ValueAt(_, _)
ValueAt(vs, path) ==
  IF Len(path) = 1 THEN vs[path[1]]
  ELSE ValueAt(vs[path[1]].content, Tail(path))

\* JSON.parse: a fresh object for every node of a list of values, numbered
\* in document order after the objects of h; gives [heap, ids]
AllocAll(h, vs) ==
  LET paths == PreOrderAll(vs, <<>>, 1)
      IdOf(p) == IF ValueAt(vs, p) = NullValue THEN NULL
                 ELSE Len(h) + (CHOOSE k \in 1..Len(paths) : paths[k] = p)
      NodeAt(p) ==
        LET v == ValueAt(vs, p) IN
        Node(v.type, v.attrs, v.ckind,
             [c \in 1..Len(v.content) |-> IdOf(Append(p, c))], v.text, v.marks)
  IN [heap |-> h \o [k \in 1..Len(paths) |-> NodeAt(paths[k])],
      ids |-> [k \in 1..Len(vs) |-> IdOf(<<k>>)]]

\* gives [heap, id]
Alloc(h, v) ==
  LET made == AllocAll(h, <<v>>) IN [heap |-> made.heap, id |-> made.ids[1]]

\* a clone that copies nothing
JsonCloneAlias(h, root) == [heap |-> h, id |-> root]

\* JSON.parse(JSON.stringify(originalDoc))
JsonClone(h, root) == Alloc(h, Val(h, root))

\* the objects reachable from a reference
RECURSIVE Reachable(_, _)
Reachable(h, id) ==
  IF id = NULL THEN {}
  ELSE {id} \cup UNION {Reachable(h, h[id].content[i]) : i \in 1..Len(h[id].content)}

\* 'content' in node && node.content
HasContent(h, id) == id # NULL /\ h[id].ckind # "absent"

\* 'text' in node && node.text
HasText(h, id) == h[id].text # None /\ h[id].text[1] # <<>>

(***************************************************************************)
(* ProseMirrorAnalyzer.analyzeDocument.  Paths hold 0-based child indices, *)
(* as in the code.  nodeMap is kept as the list of its entries in the      *)
(* order they are set (every path is set once).  A traversal gives         *)
(* [threw, textOffset, analysis]; threw is a TypeError of the walk (a null *)
(* node has no type, a non-array content has no forEach).                  *)
(***************************************************************************)
BlockLevelTypes == {"paragraph", "heading", "list_item", "code_block", "blockquote"}

\* an entry whose offset is the offset after the node
NodeInfoOffsetAfter(type, path, textOffset, textLength, children, attrs) ==
  [type |-> type, path |-> path, textOffset |-> textOffset + textLength,
   textLength |-> textLength, children |-> children, attrs |-> attrs]

NodeInfo(type, path, textOffset, textLength, children, attrs) ==
  [type |-> type, path |-> path, textOffset |-> textOffset,
   textLength |-> textLength, children |-> children, attrs |-> attrs]

EmptyAnalysis == [nodeMap |-> <<>>, textPositions |-> <<>>, blockStructure |-> <<>>]

Traversal(threw, textOffset, analysis) ==
  [threw |-> threw, textOffset |-> textOffset, analysis |-> analysis]

\* lines 53-59: the node's entry is recorded after its children's
RecordNode(type, info, textOffset, analysis) ==
  Traversal(FALSE, textOffset,
    [analysis EXCEPT
       !.nodeMap = Append(@, info),
       !.blockStructure = IF type \in BlockLevelTypes THEN Append(@, info) ELSE @])

RECURSIVE traverseNode(_, _, _, _, _)
RECURSIVE TraverseChildren(_, _, _, _, _, _)
traverseNode(h, id, path, textOffset, analysis) ==
  IF id = NULL THEN Traversal(TRUE, textOffset, analysis)
  ELSE
    LET node == h[id]
        \* if ('attrs' in node && node.attrs)
        attrs == node.attrs
    IN IF HasText(h, id)
       THEN LET n == Len(node.text[1]) IN
            RecordNode(node.type,
              NodeInfo(node.type, path, textOffset, n, <<>>, attrs),
              textOffset + n,
              [analysis EXCEPT !.textPositions =
                 Append(@, [path |-> path, start |-> textOffset,
                            end |-> textOffset + n, text |-> node.text[1]])])
       ELSE IF node.ckind = "list"
       THEN LET r == TraverseChildren(h, node.content, path, 0, textOffset, analysis)
            IN IF r.threw THEN r
               ELSE RecordNode(node.type,
                      NodeInfo(node.type, path, textOffset,
                               r.textOffset - textOffset,
                               [i \in 1..Len(node.content) |-> Append(path, i - 1)],
                               attrs),
                      r.textOffset, r.analysis)
       ELSE IF node.ckind = "other"
       THEN Traversal(TRUE, textOffset, analysis)
       ELSE RecordNode(node.type,
              NodeInfo(node.type, path, textOffset, 0, <<>>, attrs),
              textOffset, analysis)

\* node.content.forEach, from the child with 0-based index `index` on
TraverseChildren(h, content, path, index, childOffset, analysis) ==
  IF index >= Len(content) THEN Traversal(FALSE, childOffset, analysis)
  ELSE LET r == traverseNode(h, content[index + 1], Append(path, index),
                             childOffset, analysis)
       IN IF r.threw THEN r
          ELSE TraverseChildren(h, content, path, index + 1, r.textOffset, r.analysis)

analyzeDocument(h, doc) == traverseNode(h, doc, <<>>, 0, EmptyAnalysis)

(***************************************************************************)
(* MarkdownToProseMirrorMapper: the block differ.                          *)
(***************************************************************************)
BlockDiffOperation(type, position, originalBlock, newBlock, contentChanges) ==
  [type |-> type, position |-> position, originalBlock |-> originalBlock,
   newBlock |-> newBlock, contentChanges |-> contentChanges]

\* JSON.stringify of the content lists and of the attrs compares them by value
blocksEqual(block1, block2) ==
  /\ block1.type = block2.type
  /\ block1.content = block2.content
  /\ block1.attrs = block2.attrs

\* a content diff whose length is the length of the new text
computeBlockContentDiffNewLength(originalBlock, modifiedBlock) ==
  IF Join(originalBlock.content) = Join(modifiedBlock.content) THEN <<>>
  ELSE << [type |-> "text_change", position |-> 0,
           length |-> Len(Join(modifiedBlock.content)),
           oldText |-> Join(originalBlock.content),
           newText |-> Join(modifiedBlock.content)] >>

computeBlockContentDiff(originalBlock, modifiedBlock) ==
  LET originalContent == Join(originalBlock.content)
      modifiedContent == Join(modifiedBlock.content)
  IN IF originalContent = modifiedContent THEN <<>>
     ELSE << [type |-> "text_change", position |-> 0,
              length |-> Len(originalContent),
              oldText |-> originalContent, newText |-> modifiedContent] >>

\* an aligned step that does not test the blocks for equality first
DiffAlignedNoEqualTest(originalBlock, modifiedBlock, i) ==
  IF originalBlock.type = modifiedBlock.type
  THEN << BlockDiffOperation("modify_block", i, Some(originalBlock),
            Some(modifiedBlock),
            Some(<< [type |-> "text_change", position |-> 0,
                     length |-> Len(Join(originalBlock.content)),
                     oldText |-> Join(originalBlock.content),
                     newText |-> Join(modifiedBlock.content)] >>)) >>
  ELSE << BlockDiffOperation("replace_block", i, Some(originalBlock),
            Some(modifiedBlock), None) >>

\* lines 389-427: both sequences have a block at the pointers; the
\* operations the step emits (the pointers both advance in every case)
DiffAligned(originalBlock, modifiedBlock, i) ==
  IF blocksEqual(originalBlock, modifiedBlock) THEN <<>>
  ELSE IF originalBlock.type = modifiedBlock.type
  THEN LET contentDiff == computeBlockContentDiff(originalBlock, modifiedBlock) IN
       IF Len(contentDiff) > 0
       THEN << BlockDiffOperation("modify_block", i, Some(originalBlock),
                 Some(modifiedBlock), Some(contentDiff)) >>
       ELSE <<>>
  ELSE << BlockDiffOperation("replace_block", i, Some(originalBlock),
            Some(modifiedBlock), None) >>

\* the while loop; i and j are 0-based.  The arrays have no holes, so the
\* tests for an undefined block (and the final else) never take effect.
RECURSIVE DiffLoop(_, _, _, _, _)
DiffLoop(originalBlocks, modifiedBlocks, i, j, operations) ==
  IF ~(i < Len(originalBlocks) \/ j < Len(modifiedBlocks)) THEN operations
  ELSE IF i >= Len(originalBlocks)
  THEN DiffLoop(originalBlocks, modifiedBlocks, i, j + 1,
         Append(operations,
           BlockDiffOperation("insert_block", i, None,
                              Some(modifiedBlocks[j + 1]), None)))
  ELSE IF j >= Len(modifiedBlocks)
  THEN DiffLoop(originalBlocks, modifiedBlocks, i + 1, j,
         Append(operations,
           BlockDiffOperation("delete_block", i,
                              Some(originalBlocks[i + 1]), None, None)))
  ELSE DiffLoop(originalBlocks, modifiedBlocks, i + 1, j + 1,
         operations \o DiffAligned(originalBlocks[i + 1], modifiedBlocks[j + 1], i))

\* a diff that takes the two sequences in the other order
computeBlockDiffSwapped(originalBlocks, modifiedBlocks) ==
  DiffLoop(modifiedBlocks, originalBlocks, 0, 0, <<>>)

computeBlockDiff(originalBlocks, modifiedBlocks) ==
  DiffLoop(originalBlocks, modifiedBlocks, 0, 0, <<>>)

(***************************************************************************)
(* MarkdownToProseMirrorMapper: the diff-to-operation mapper.              *)
(***************************************************************************)
MarkdownDiffOperation(type, markdownPosition, prosemirrorPath, length, content,
                      originalContent, nodeType, nodeAttrs) ==
  [type |-> type, markdownPosition |-> markdownPosition,
   prosemirrorPath |-> prosemirrorPath, length |-> length, content |-> content,
   originalContent |-> originalContent, nodeType |-> nodeType,
   nodeAttrs |-> nodeAttrs]

RECURSIVE SumLineLengths(_, _)
SumLineLengths(lines, n) ==
  IF n = 0 THEN 0 ELSE SumLineLengths(lines, n - 1) + Len(lines[n]) + 1

Min(a, b) == IF a < b THEN a ELSE b

Max(a, b) == IF a > b THEN a ELSE b

calculateMarkdownPosition(block, markdown) ==
  LET lines == Split(markdown) IN
  SumLineLengths(lines, Min(block.startLine, Len(lines)))

mapBlockTypeToProseMirror(markdownType) ==
  IF markdownType \in {"heading", "paragraph", "list_item", "code_block",
                       "blockquote", "horizontal_rule"}
  THEN markdownType
  ELSE "paragraph"

\* the insert_node of a new block; markdown is the text its anchor is
\* computed in.  if (diff.newBlock.attrs) holds for every attrs object.
InsertNodeOperation(newBlock, position, markdown) ==
  MarkdownDiffOperation("insert_node",
    calculateMarkdownPosition(newBlock, markdown),
    Some(<<position>>), None, Some(Join(newBlock.content)), None,
    Some(mapBlockTypeToProseMirror(newBlock.type)), newBlock.attrs)

DeleteNodeOperation(originalBlock, blockInfo, markdown) ==
  MarkdownDiffOperation("delete_node",
    calculateMarkdownPosition(originalBlock, markdown),
    Some(blockInfo.path), None, None, None, Some(blockInfo.type), None)

\* a replace whose old and new text are exchanged
ReplaceOperationSwapped(change, blockInfo) ==
  MarkdownDiffOperation("replace", blockInfo.textOffset + change.position,
    Some(blockInfo.path), Some(change.length), Some(change.oldText),
    Some(change.newText), None, None)

ReplaceOperation(change, blockInfo) ==
  MarkdownDiffOperation("replace", blockInfo.textOffset + change.position,
    Some(blockInfo.path), Some(change.length), Some(change.newText),
    Some(change.oldText), None, None)

\* one case of the switch: the operations pushed for one block-diff entry
MapDiffEntry(diff, docAnalysis, originalMarkdown, modifiedMarkdown) ==
  LET \* docAnalysis.blockStructure[diff.position], undefined beyond the end
      known == diff.position < Len(docAnalysis.blockStructure)
      blockInfo == docAnalysis.blockStructure[diff.position + 1]
  IN CASE diff.type = "insert_block" ->
            << InsertNodeOperation(diff.newBlock[1], diff.position, originalMarkdown) >>
       [] diff.type = "delete_block" ->
            IF known
            THEN << DeleteNodeOperation(diff.originalBlock[1], blockInfo,
                                        originalMarkdown) >>
            ELSE <<>>
       [] diff.type = "modify_block" ->
            IF known
            THEN [k \in 1..Len(diff.contentChanges[1]) |->
                    ReplaceOperation(diff.contentChanges[1][k], blockInfo)]
            ELSE <<>>
       [] diff.type = "replace_block" ->
            IF known
            THEN << DeleteNodeOperation(diff.originalBlock[1], blockInfo,
                                        originalMarkdown),
                    InsertNodeOperation(diff.newBlock[1], diff.position,
                                        modifiedMarkdown) >>
            ELSE <<>>

RECURSIVE mapDiffToProseMirror(_, _, _, _)
mapDiffToProseMirror(blockDiff, docAnalysis, originalMarkdown, modifiedMarkdown) ==
  IF blockDiff = <<>> THEN <<>>
  ELSE MapDiffEntry(Head(blockDiff), docAnalysis, originalMarkdown, modifiedMarkdown)
       \o mapDiffToProseMirror(Tail(blockDiff), docAnalysis, originalMarkdown,
                               modifiedMarkdown)

calculateStatistics(operations) ==
  LET Count(types) == Cardinality({k \in 1..Len(operations) : operations[k].type \in types})
      structural == Count({"insert_node", "delete_node", "modify_node"})
  IN [nodesModified |-> structural,
      textChanges |-> Count({"replace", "insert", "delete"}),
      structuralChanges |-> structural]

(***************************************************************************)
(* MarkdownToProseMirrorMapper: the operation applier.  The operations     *)
(* mutate heap objects in place.  THROW stands for a thrown Error.         *)
(***************************************************************************)
THROW == -1

\* operation.prosemirrorPath || []
PathOf(operation) ==
  IF operation.prosemirrorPath = None THEN <<>> ELSE operation.prosemirrorPath[1]

RECURSIVE getNodeAtPath(_, _, _)
getNodeAtPath(h, current, path) ==
  IF path = <<>> THEN current
  ELSE LET index == Head(path) IN
       IF /\ current # NULL
          /\ h[current].ckind = "list"
          /\ index >= 0
          /\ index < Len(h[current].content)
          /\ h[current].content[index + 1] # NULL
       THEN getNodeAtPath(h, h[current].content[index + 1], Tail(path))
       ELSE THROW

\* path.slice(0, -1)
ParentPath(path) == IF path = <<>> THEN <<>> ELSE SubSeq(path, 1, Len(path) - 1)

\* the values of the nodes parseContentToNodes builds
parseContentToNodes(text) ==
  IF TrimIsEmpty(text) THEN <<>>
  ELSE With(parseInlineMarkdown(text), LAMBDA inlineTokens :
         [k \in 1..Len(inlineTokens) |->
            Node(inlineTokens[k].type, None, "absent", <<>>,
                 IF inlineTokens[k].text # <<>> THEN Some(inlineTokens[k].text) ELSE None,
                 IF inlineTokens[k].marks # None /\ Len(inlineTokens[k].marks[1]) > 0
                 THEN inlineTokens[k].marks ELSE None)])

\* Array.prototype.splice(start, deleteCount, ...items) on a list
Splice(list, start, deleteCount, items) ==
  LET len == Len(list)
      from == IF start < 0 THEN Max(len + start, 0) ELSE Min(start, len)
      count == Min(Max(deleteCount, 0), len - from)
  IN SubSeq(list, 1, from) \o items \o SubSeq(list, from + count + 1, len)

Applied(h) == [heap |-> h, threw |-> FALSE]

Thrown(h) == [heap |-> h, threw |-> TRUE]

insertNode(h, doc, path, operation) ==
  LET parent == getNodeAtPath(h, doc, ParentPath(path))
      \* path[path.length - 1] || 0
      index == IF path = <<>> THEN 0 ELSE path[Len(path)]
  IN IF parent = THROW \/ parent = NULL THEN Thrown(h)
     ELSE IF h[parent].ckind = "other" THEN Thrown(h)
     ELSE IF h[parent].ckind = "absent" THEN Applied(h)
     ELSE With(AllocAll(h, IF operation.content # None /\ operation.content[1] # <<>>
                           THEN parseContentToNodes(operation.content[1])
                           ELSE <<>>),
            LAMBDA kids :
              With(Node(IF operation.nodeType # None /\ operation.nodeType[1] # ""
                        THEN operation.nodeType[1] ELSE "paragraph",
                        operation.nodeAttrs, "list", kids.ids, None, None),
                LAMBDA newNode :
                  Applied([Append(kids.heap, newNode) EXCEPT
                             ![parent].content =
                                Splice(@, index, 0, <<Len(kids.heap) + 1>>)])))

\* a delete that takes the empty path as the root and drops its content
deleteNodeRootToo(h, doc, path) ==
  IF path = <<>>
  THEN IF doc = NULL THEN Thrown(h)
       ELSE Applied([h EXCEPT ![doc].content = <<>>, ![doc].ckind = "absent"])
  ELSE LET parent == getNodeAtPath(h, doc, ParentPath(path))
           index == path[Len(path)]
       IN IF parent = THROW \/ parent = NULL THEN Thrown(h)
          ELSE IF h[parent].ckind = "list" /\ index < Len(h[parent].content)
          THEN Applied([h EXCEPT ![parent].content = Splice(@, index, 1, <<>>)])
          ELSE Applied(h)

deleteNode(h, doc, path) ==
  IF path = <<>> THEN Applied(h)
  ELSE LET parent == getNodeAtPath(h, doc, ParentPath(path))
           index == path[Len(path)]
       IN IF parent = THROW \/ parent = NULL THEN Thrown(h)
          ELSE IF h[parent].ckind = "list" /\ index < Len(h[parent].content)
          THEN Applied([h EXCEPT ![parent].content = Splice(@, index, 1, <<>>)])
          ELSE Applied(h)

\* a replace that keeps the children the node had and adds the new ones
replaceTextContentAppending(h, doc, path, operation) ==
  LET node == getNodeAtPath(h, doc, path) IN
  IF node = THROW THEN Thrown(h)
  ELSE IF node # NULL /\ HasContent(h, node)
  THEN With(AllocAll(h, parseContentToNodes(
                      IF operation.content = None THEN <<>> ELSE operation.content[1])),
         LAMBDA kids : Applied([kids.heap EXCEPT ![node].content = @ \o kids.ids,
                                                 ![node].ckind = "list"]))
  ELSE Applied(h)

replaceTextContent(h, doc, path, operation) ==
  LET node == getNodeAtPath(h, doc, path) IN
  IF node = THROW THEN Thrown(h)
  ELSE IF node # NULL /\ HasContent(h, node)
  THEN With(AllocAll(h, parseContentToNodes(
                      IF operation.content = None THEN <<>> ELSE operation.content[1])),
         LAMBDA kids : Applied([kids.heap EXCEPT ![node].content = kids.ids,
                                                 ![node].ckind = "list"]))
  ELSE Applied(h)

\* { ...a, ...b } on attrs kept as lists of <<key, value>>
MergeAttrs(a, b) ==
  LET base == IF a = None THEN <<>> ELSE a[1]
      KeyIn(k, ps) == \E i \in 1..Len(ps) : ps[i][1] = k
      ValueIn(k, ps) == ps[CHOOSE i \in 1..Len(ps) : ps[i][1] = k][2]
      kept == [i \in 1..Len(base) |->
                 IF KeyIn(base[i][1], b) THEN <<base[i][1], ValueIn(base[i][1], b)>>
                 ELSE base[i]]
  IN kept \o SelectSeq(b, LAMBDA pr : ~KeyIn(pr[1], base))

modifyNode(h, doc, path, operation) ==
  LET node == getNodeAtPath(h, doc, path) IN
  IF node = THROW THEN Thrown(h)
  ELSE IF node # NULL /\ operation.nodeAttrs # None
  THEN Applied([h EXCEPT ![node].attrs = Some(MergeAttrs(@, operation.nodeAttrs[1]))])
  ELSE Applied(h)

applyOperation(h, doc, operation) ==
  LET path == PathOf(operation) IN
  CASE operation.type = "insert_node" -> insertNode(h, doc, path, operation)
    [] operation.type = "delete_node" -> deleteNode(h, doc, path)
    [] operation.type = "replace" -> replaceTextContent(h, doc, path, operation)
    [] operation.type = "modify_node" -> modifyNode(h, doc, path, operation)
    [] OTHER -> Applied(h)

\* the comparator of the sort: negative when a goes before b
RECURSIVE ComparePathsFrom(_, _, _)
ComparePathsFrom(pathA, pathB, i) ==
  IF i < 1 THEN 0
  ELSE IF pathA[i] # pathB[i] THEN pathB[i] - pathA[i]
  ELSE ComparePathsFrom(pathA, pathB, i - 1)

CompareOperations(a, b) ==
  LET pathA == PathOf(a)
      pathB == PathOf(b)
  IN IF Len(pathA) # Len(pathB) THEN Len(pathB) - Len(pathA)
     ELSE ComparePathsFrom(pathA, pathB, Len(pathA))

\* Array.prototype.sort is stable: an operation goes after every operation
\* already placed that does not compare greater than it
RECURSIVE SortInto(_, _)
SortInto(sorted, operations) ==
  IF operations = <<>> THEN sorted
  ELSE LET op == Head(operations)
           after == Cardinality({k \in 1..Len(sorted) :
                                   CompareOperations(sorted[k], op) <= 0})
       IN SortInto(SubSeq(sorted, 1, after) \o <<op>>
                     \o SubSeq(sorted, after + 1, Len(sorted)),
                   Tail(operations))

\* no sort: the operations in the order they were given
SortOperationsInputOrder(operations) == operations

SortOperations(operations) == SortInto(<<>>, operations)

\* a loop without the try/catch: it ends at the first operation that throws
RECURSIVE ApplyAllUntilThrow(_, _, _)
ApplyAllUntilThrow(h, doc, sortedOps) ==
  IF sortedOps = <<>> THEN h
  ELSE With(applyOperation(h, doc, Head(sortedOps)), LAMBDA r :
         IF r.threw THEN r.heap
         ELSE ApplyAllUntilThrow(r.heap, doc, Tail(sortedOps)))

\* the for loop with its try/catch: a throwing operation is skipped
RECURSIVE ApplyAll(_, _, _)
ApplyAll(h, doc, sortedOps) ==
  IF sortedOps = <<>> THEN h
  ELSE ApplyAll(applyOperation(h, doc, Head(sortedOps)).heap, doc, Tail(sortedOps))

\* gives [heap, id]: the heap after the call and the returned document
applyOperationsToDocument(h, originalDoc, operations) ==
  With(JsonClone(h, originalDoc), LAMBDA newDoc :
    [heap |-> ApplyAll(newDoc.heap, newDoc.id, SortOperations(operations)),
     id |-> newDoc.id])

(***************************************************************************)
(* MarkdownToProseMirrorMapper.transform.  A JavaScript value given as     *)
(* Markdown is [t, v]: a string (t = "string", v its characters) or        *)
(* undefined.  The options argument is absent, an options object or null.  *)
(* The code before the await (parse, analyze, diff, map) runs in one step; *)
(* what follows the await (apply, statistics) in another.  A call settles  *)
(* with an outcome: fulfilled with a result, or rejected with a reason.    *)
(***************************************************************************)
Str(chars) == [t |-> "string", v |-> chars]

Undefined == [t |-> "undefined", v |-> <<>>]

NoOptions == "undefined"

EmptyOptions == "object"

NullOptions == "null"

TransformArgs(originalMarkdown, modifiedMarkdown, originalProseMirrorDoc, options) ==
  [originalMarkdown |-> originalMarkdown, modifiedMarkdown |-> modifiedMarkdown,
   originalProseMirrorDoc |-> originalProseMirrorDoc, options |-> options]

Fulfilled(value) == [status |-> "fulfilled", value |-> Some(value), reason |-> ""]

Rejected(reason) == [status |-> "rejected", value |-> None, reason |-> reason]

\* lines 313-319: the default applies to an absent options only, and
\* destructuring null throws before the try block is entered
DestructureOptions(a) ==
  IF a.options = NullOptions
  THEN [threw |-> TRUE, message |-> "cannot destructure null"]
  ELSE [threw |-> FALSE, message |-> ""]

TransformResult(success, newDocument, operations, errors, statistics) ==
  [success |-> success, newDocument |-> newDocument, operations |-> operations,
   errors |-> errors, statistics |-> statistics]

\* the catch block: the result built from a caught error
FailureResult(a, message) ==
  TransformResult(FALSE, a.originalProseMirrorDoc, <<>>, <<message>>,
                  [nodesModified |-> 0, textChanges |-> 0, structuralChanges |-> 0])

\* lines 322-334; gives [threw, message, operations]
TransformSync(h, a) ==
  IF a.originalMarkdown.t # "string" \/ a.modifiedMarkdown.t # "string"
  THEN [threw |-> TRUE, message |-> "markdown.split is not a function",
        operations |-> <<>>]
  ELSE
    With(analyzeDocument(h, a.originalProseMirrorDoc), LAMBDA docAnalysis :
      IF docAnalysis.threw
      THEN [threw |-> TRUE, message |-> "cannot read properties of the node",
            operations |-> <<>>]
      ELSE [threw |-> FALSE, message |-> "",
            operations |->
              mapDiffToProseMirror(
                computeBlockDiff(parseToBlocks(a.originalMarkdown.v),
                                 parseToBlocks(a.modifiedMarkdown.v)),
                docAnalysis.analysis, a.originalMarkdown.v, a.modifiedMarkdown.v)])

\* a resumption that edits the caller's tree in place
TransformResumeInPlace(h, a, mappedOperations) ==
  [heap |-> ApplyAll(h, a.originalProseMirrorDoc, SortOperations(mappedOperations)),
   result |-> TransformResult(TRUE, a.originalProseMirrorDoc, mappedOperations, <<>>,
                              calculateStatistics(mappedOperations))]

\* lines 336-348; gives [heap, result]
TransformResume(h, a, mappedOperations) ==
  With(applyOperationsToDocument(h, a.originalProseMirrorDoc, mappedOperations),
       LAMBDA applied :
         [heap |-> applied.heap,
          result |-> TransformResult(TRUE, applied.id, mappedOperations, <<>>,
                                     calculateStatistics(mappedOperations))])

\* a whole transform call run on its own from heap h; gives [heap, outcome]
TransformAlone(h, a) ==
  IF DestructureOptions(a).threw
  THEN [heap |-> h, outcome |-> Rejected(DestructureOptions(a).message)]
  ELSE With(TransformSync(h, a), LAMBDA sync :
         IF sync.threw
         THEN [heap |-> h, outcome |-> Fulfilled(FailureResult(a, sync.message))]
         ELSE With(TransformResume(h, a, sync.operations), LAMBDA resumed :
                [heap |-> resumed.heap, outcome |-> Fulfilled(resumed.result)]))

(***************************************************************************)
(* Inputs.  A text is built from whole lines or inline pieces, so that     *)
(* short bounds reach every line class and every inline construct.         *)
(***************************************************************************)
SeqsUpTo(S, n) == UNION {[1..k -> S] : k \in 1..n}

RECURSIVE Concat(_)
Concat(ss) == IF ss = <<>> THEN <<>> ELSE Head(ss) \o Concat(Tail(ss))

ParseLinePool ==
  { <<"#", " ", "H">>,                      \* heading, level 1
    <<"#", "#", " ", "H">>,                 \* heading, level 2
    <<"#", " ">>,                           \* '#' with nothing after the space
    <<"a">>, <<"b">>,                       \* paragraph lines
    <<"-", " ", "x">>,                      \* bullet list item
    <<"1", "2", ".", " ", "z">>,            \* ordered list item
    <<Backquote, Backquote, Backquote, "j", "s">>,
    <<">", " ", "q">>,                      \* blockquote
    <<>>,                                   \* blank line
    <<" ">>,                                \* whitespace-only line
    <<"-", "-", "-">> }                     \* horizontal rule

ParseInputs == {Join(ls) : ls \in SeqsUpTo(ParseLinePool, MaxParseLines)}

InlinePiecePool ==
  { <<"a">>, <<" ">>, <<NL>>, <<"*">>, <<"[">>, <<Backquote>>,
    <<"*", "*", "b", "*", "*">>,
    <<"*", "i", "*">>,
    <<Backquote, "c", Backquote>>,
    <<"[", "t", "]", "(", "u", ")">>,
    <<"[", "t", "]", "(", "v", ")">> }

InlineInputs == {Concat(ps) : ps \in SeqsUpTo(InlinePiecePool, MaxPieces)}

(***************************************************************************)
(* The pure entry points, called once on an input.                         *)
(***************************************************************************)
EmptyHeap == <<>>

InitPure(name, inputs) ==
  /\ entry = name
  /\ heap = EmptyHeap
  /\ args \in {<<a>> : a \in inputs}
  /\ pc = <<"start">>
  /\ locals = <<None>>
  /\ ret = <<None>>
  /\ results = None

Return(value) ==
  /\ pc[1] = "start"
  /\ pc' = <<"done">>
  /\ ret' = <<Some(value)>>
  /\ UNCHANGED <<entry, heap, args, locals, results>>

CallParseToBlocks ==
  /\ entry = "parseToBlocks"
  /\ Return(parseToBlocks(args[1]))

CallParseInlineMarkdown ==
  /\ entry = "parseInlineMarkdown"
  /\ Return(parseInlineMarkdown(args[1]))

InitParse == InitPure("parseToBlocks", ParseInputs)

SpecParse == InitParse /\ [][CallParseToBlocks]_vars

InitInline == InitPure("parseInlineMarkdown", InlineInputs)

SpecInline == InitInline /\ [][CallParseInlineMarkdown]_vars

Returned(name) == entry = name /\ pc[1] = "done"

(***************************************************************************)
(* The trees callers pass.  They live in the heap from the start; a call   *)
(* is given a reference, so two calls can be given the same object.        *)
(***************************************************************************)
TextNode(chars, marks) == Node("text", None, "absent", <<>>, Some(chars), marks)

Element(type, attrs, children) == Node(type, attrs, "list", children, None, None)

Paragraph(chars) == Element("paragraph", None, <<TextNode(chars, None)>>)

HelloWorldDoc ==
  Element("doc", None,
    << Element("heading", Some(<< <<"level", 1>> >>),
               <<TextNode(<<"H", "e", "l", "l", "o">>, None)>>),
       Paragraph(<<"W", "o", "r", "l", "d">>) >>)

OldTextDoc == Element("doc", None, <<Paragraph(<<"O", "l", "d", " ", "t", "e", "x", "t">>)>>)

EmptyDoc == Element("doc", None, <<>>)

TwoParagraphDoc == Element("doc", None, <<Paragraph(<<"a">>), Paragraph(<<"b">>)>>)

QuoteDoc ==
  Element("doc", None,
    << Element("blockquote", None, <<Paragraph(<<"q">>)>>),
       Element("paragraph", None,
         << TextNode(<<"a">>, Some(<<Mark("strong", None)>>)),
            TextNode(<<"b">>, None) >>) >>)

ListDoc ==
  Element("doc", None,
    << Element("bullet_list", None,
         <<Element("list_item", None, <<Paragraph(<<"x">>)>>)>>),
       Paragraph(<<"a">>) >>)

\* trees that fail validateProseMirrorDocument
NoContentDoc == Node("doc", None, "absent", <<>>, None, None)

NotDocRoot == Paragraph(<<"a">>)

NotListContentDoc == Node("doc", None, "other", <<>>, None, None)

\* a tree with a null child: it passes the validation, and its walk throws
NullChildDoc == Element("doc", None, <<Paragraph(<<"a">>), NullValue>>)

ValidTreeValues ==
  <<HelloWorldDoc, OldTextDoc, EmptyDoc, TwoParagraphDoc, QuoteDoc, ListDoc>>

OtherTreeValues == <<NoContentDoc, NotDocRoot, NotListContentDoc, NullChildDoc>>

Pool == AllocAll(EmptyHeap, ValidTreeValues \o OtherTreeValues)

PoolHeap == Pool.heap

RootOf(value) ==
  Pool.ids[CHOOSE k \in 1..Len(Pool.ids) : Val(PoolHeap, Pool.ids[k]) = value]

ValidRoots == {Pool.ids[k] : k \in 1..Len(ValidTreeValues)}

\* the invalid trees: absent, or one of the three above
InvalidRoots == {NULL, RootOf(NoContentDoc), RootOf(NotDocRoot), RootOf(NotListContentDoc)}

AllRoots == {Pool.ids[k] : k \in 1..Len(Pool.ids)} \cup {NULL}

(***************************************************************************)
(* The Markdown texts callers pass.                                        *)
(***************************************************************************)
\* the lines of the texts of several lines
TextLinePool == { <<"#", " ", "H">>, <<>>, <<"a">>, <<"b">> }

LinePool == TextLinePool \cup { <<"-", " ", "x">> }

Markdowns == {Join(ls) : ls \in SeqsUpTo(TextLinePool, MaxLines)}

HelloWorldText ==
  <<"#", " ", "H", "e", "l", "l", "o", NL, NL, "W", "o", "r", "l", "d">>

HelloWorldNewText ==
  HelloWorldText \o <<NL, NL, "#", "#", " ", "N", "e", "w">>

OldText == <<"O", "l", "d", " ", "t", "e", "x", "t">>

NewText == <<"N", "e", "w", " ", "t", "e", "x", "t">>

HeadingText == <<"#", " ", "N", "e", "w">>

\* the example scenarios
InsertionScenario ==
  TransformArgs(Str(HelloWorldText), Str(HelloWorldNewText), RootOf(HelloWorldDoc),
                NoOptions)

TextChangeScenario ==
  TransformArgs(Str(OldText), Str(NewText), RootOf(OldTextDoc), NoOptions)

TypeChangeScenario ==
  TransformArgs(Str(OldText), Str(HeadingText), RootOf(OldTextDoc), NoOptions)

\* the paragraph after a blank line becomes a heading
HelloHeadingText ==
  <<"#", " ", "H", "e", "l", "l", "o", NL, NL, "#", " ", "W", "o", "r", "l", "d">>

TypeChangeAfterBlankScenario ==
  TransformArgs(Str(HelloWorldText), Str(HelloHeadingText), RootOf(HelloWorldDoc),
                NoOptions)

\* a heading and a paragraph are added after the only block
AppendTwoScenario ==
  TransformArgs(Str(OldText), Str(OldText \o <<NL>> \o HeadingText \o <<NL, "x">>),
                RootOf(OldTextDoc), NoOptions)

\* texts that are no strings, and trees that cannot be walked, with one-line texts
OneLineValues == {Str(l) : l \in LinePool} \cup {Undefined}

OptionsValues == {NoOptions, EmptyOptions, NullOptions}

\* the trees given with the texts of several lines
SeveralBlockRoots == {RootOf(HelloWorldDoc), RootOf(TwoParagraphDoc), RootOf(QuoteDoc)}

TransformInputs ==
  {TransformArgs(Str(o), Str(m), t, NoOptions) :
     o \in Markdowns, m \in Markdowns, t \in SeveralBlockRoots}
  \cup {TransformArgs(o, m, t, opt) :
          o \in OneLineValues, m \in OneLineValues, t \in AllRoots,
          opt \in OptionsValues}
  \cup {InsertionScenario, TextChangeScenario, TypeChangeScenario,
        TypeChangeAfterBlankScenario, AppendTwoScenario}

(***************************************************************************)
(* transform and batchTransform.  batchTransform starts its calls in input *)
(* order (the map callback runs each call up to its await); the calls then *)
(* resume one at a time, in an order the model leaves open.                *)
(***************************************************************************)
Calls == 1..Len(pc)

InitCalls(name, requests) ==
  /\ entry = name
  /\ heap = PoolHeap
  /\ args = requests
  /\ pc = [i \in 1..Len(requests) |-> "start"]
  /\ locals = [i \in 1..Len(requests) |-> None]
  /\ ret = [i \in 1..Len(requests) |-> None]
  /\ results = None

Settle(i, outcome) ==
  /\ pc' = [pc EXCEPT ![i] = "done"]
  /\ ret' = [ret EXCEPT ![i] = Some(outcome)]

\* transform from its call to its first await, or to its end when it
\* settles before
RunToAwait(i) ==
  /\ IF DestructureOptions(args[i]).threw
     THEN /\ Settle(i, Rejected(DestructureOptions(args[i]).message))
          /\ UNCHANGED locals
     ELSE \E sync \in {TransformSync(heap, args[i])} :
            IF sync.threw
            THEN /\ Settle(i, Fulfilled(FailureResult(args[i], sync.message)))
                 /\ UNCHANGED locals
            ELSE /\ pc' = [pc EXCEPT ![i] = "awaiting"]
                 /\ locals' = [locals EXCEPT ![i] = Some(sync.operations)]
                 /\ UNCHANGED ret
  /\ UNCHANGED <<entry, heap, args, results>>

TransformStart(i) ==
  /\ entry \in {"transform", "batchTransform"}
  /\ pc[i] = "start"
  /\ \A k \in 1..(i - 1) : pc[k] # "start"
  /\ RunToAwait(i)

TransformContinue(i) ==
  /\ entry \in {"transform", "batchTransform", "transformWithValidation"}
  /\ pc[i] = "awaiting"
  /\ \A k \in Calls : pc[k] # "start"
  /\ \E resumed \in {TransformResume(heap, args[i], locals[i][1])} :
     /\ heap' = resumed.heap
     /\ Settle(i, Fulfilled(resumed.result))
  /\ UNCHANGED <<entry, args, locals, results>>

\* results.map of batchTransform, from the entry with index k on: a
\* fulfilled call gives its value, a rejected one a failure result built
\* here, whose newDocument is the request's tree or, when that is falsy, a
\* document made by createEmptyDocument; gives [heap, results]
RECURSIVE MapSettledFulfilledOnly(_, _, _, _, _)
MapSettledFulfilledOnly(h, requests, outcomes, k, mapped) ==
  IF k > Len(outcomes) THEN [heap |-> h, results |-> mapped]
  ELSE MapSettledFulfilledOnly(h, requests, outcomes, k + 1,
         IF outcomes[k].status = "fulfilled"
         THEN Append(mapped, outcomes[k].value[1]) ELSE mapped)

RECURSIVE MapSettled(_, _, _, _, _)
MapSettled(h, requests, outcomes, k, mapped) ==
  IF k > Len(outcomes) THEN [heap |-> h, results |-> mapped]
  ELSE IF outcomes[k].status = "fulfilled"
  THEN MapSettled(h, requests, outcomes, k + 1, Append(mapped, outcomes[k].value[1]))
  ELSE IF requests[k].originalProseMirrorDoc # NULL
  THEN MapSettled(h, requests, outcomes, k + 1,
         Append(mapped, FailureResult(requests[k], outcomes[k].reason)))
  ELSE MapSettled(Append(h, Node("doc", None, "list", <<>>, None, None)),
         requests, outcomes, k + 1,
         Append(mapped,
           [FailureResult(requests[k], outcomes[k].reason)
              EXCEPT !.newDocument = Len(h) + 1]))

\* Promise.allSettled has settled: every call is done
BatchReturn ==
  /\ entry = "batchTransform"
  /\ results = None
  /\ \A k \in Calls : pc[k] = "done"
  /\ \E mapped \in {MapSettled(heap, args, [k \in Calls |-> ret[k][1]], 1, <<>>)} :
       /\ heap' = mapped.heap
       /\ results' = Some(mapped.results)
  /\ UNCHANGED <<entry, args, pc, locals, ret>>

InitTransform == \E a \in TransformInputs : InitCalls("transform", <<a>>)

NextTransform == TransformStart(1) \/ TransformContinue(1)

SpecTransform == InitTransform /\ [][NextTransform]_vars

\* requests of a batch: two that share a tree, and the ways a request fails
BatchRequestPool ==
  { TextChangeScenario, TypeChangeScenario,
    TransformArgs(Str(OldText), Str(NewText), NULL, NoOptions),
    TransformArgs(Str(OldText), Str(NewText), RootOf(NotDocRoot), EmptyOptions),
    TransformArgs(Str(OldText), Str(NewText), RootOf(OldTextDoc), NullOptions),
    TransformArgs(Str(OldText), Str(NewText), NULL, NullOptions) }

InitBatch ==
  \E requests \in SeqsUpTo(BatchRequestPool, MaxBatch) :
    InitCalls("batchTransform", requests)

NextBatch ==
  \/ \E i \in Calls : TransformStart(i)
  \/ \E i \in Calls : TransformContinue(i)
  \/ BatchReturn

SpecBatch == InitBatch /\ [][NextBatch]_vars

(***************************************************************************)
(* applyOperationsToDocument, called on a tree with any list of            *)
(* operations.                                                             *)
(***************************************************************************)
ApplyArgs(originalDoc, operations) ==
  [originalDoc |-> originalDoc, operations |-> operations]

Op(type, path, content, nodeType, nodeAttrs) ==
  MarkdownDiffOperation(type, 0, path, None, content, None, nodeType, nodeAttrs)

OperationPool ==
  { Op("insert_node", Some(<<0>>), Some(<<"*", "*", "b", "*", "*", "c">>),
       Some("heading"), Some(<< <<"level", 2>> >>)),
    Op("insert_node", Some(<<5>>), Some(<<"x">>), None, None),
    Op("insert_node", Some(<<0, 0>>), None, Some("paragraph"), None),
    Op("insert_node", None, Some(<<"x">>), None, None),
    Op("delete_node", Some(<<0>>), None, None, None),
    Op("delete_node", Some(<<1>>), None, None, None),
    Op("delete_node", Some(<<0, 0>>), None, None, None),
    Op("delete_node", Some(<<-1>>), None, None, None),
    Op("delete_node", Some(<<>>), None, None, None),
    Op("delete_node", Some(<<7, 0>>), None, None, None),
    Op("replace", Some(<<0>>), Some(<<"n", "*", "e", "*">>), None, None),
    Op("replace", Some(<<0, 0>>), Some(<<" ">>), None, None),
    Op("replace", Some(<<1>>), Some(<<" ">>), None, None),
    Op("modify_node", Some(<<0>>), None, None, Some(<< <<"level", 3>> >>)),
    Op("modify_node", Some(<<>>), None, None, Some(<< <<"k", 1>> >>)) }

ApplyInputs ==
  {ApplyArgs(t, ops) : t \in AllRoots,
                       ops \in SeqsUpTo(OperationPool, MaxOps) \cup {<<>>}}

InitApply ==
  /\ entry = "applyOperationsToDocument"
  /\ heap = PoolHeap
  /\ args \in {<<a>> : a \in ApplyInputs}
  /\ pc = <<"start">>
  /\ locals = <<None>>
  /\ ret = <<None>>
  /\ results = None

CallApplyOperationsToDocument ==
  /\ entry = "applyOperationsToDocument"
  /\ pc[1] = "start"
  /\ \E applied \in {applyOperationsToDocument(heap, args[1].originalDoc,
                                                 args[1].operations)} :
        /\ heap' = applied.heap
        /\ ret' = <<Some(applied.id)>>
  \* sortedOps, the list the loop has gone through
  /\ locals' = <<Some(SortOperations(args[1].operations))>>
  /\ pc' = <<"done">>
  /\ UNCHANGED <<entry, args, results>>

SpecApply == InitApply /\ [][CallApplyOperationsToDocument]_vars

(***************************************************************************)
(* computeBlockDiff, called as transform calls it: on the blocks           *)
(* parseToBlocks gives for two texts.                                      *)
(***************************************************************************)
DiffArgs(originalMarkdown, modifiedMarkdown) ==
  [originalBlocks |-> parseToBlocks(originalMarkdown),
   modifiedBlocks |-> parseToBlocks(modifiedMarkdown)]

DiffTexts ==
  Markdowns \cup LinePool \cup {<<"#", "#", " ", "H">>, <<" ">>}
  \cup {HelloWorldText, HelloWorldNewText, HelloHeadingText}

DiffInputs == {DiffArgs(o, m) : o \in DiffTexts, m \in DiffTexts}

CallComputeBlockDiff ==
  /\ entry = "computeBlockDiff"
  /\ Return(computeBlockDiff(args[1].originalBlocks, args[1].modifiedBlocks))

InitDiff == InitPure("computeBlockDiff", DiffInputs)

SpecDiff == InitDiff /\ [][CallComputeBlockDiff]_vars

(***************************************************************************)
(* validateProseMirrorDocument and transformWithValidation.  A candidate   *)
(* of the guard is any JavaScript value [t, v, ref]: t is what typeof      *)
(* gives (with "null" for null), v the characters of a primitive and ref   *)
(* the object of an object value.  The guard returns a JavaScript value.   *)
(* transformWithValidation is an async function, so that a throw of its    *)
(* tests rejects its promise; a call that passes them runs transform up to *)
(* its await in the same step.                                             *)
(***************************************************************************)
JsValue(t, v, ref) == [t |-> t, v |-> v, ref |-> ref]

Boolean(b) == JsValue("boolean", IF b THEN <<"true">> ELSE <<"false">>, NULL)

\* !x holds: null, undefined, the empty string, 0 and false
Falsy(x) ==
  \/ x.t \in {"null", "undefined"}
  \/ x.t = "string" /\ x.v = <<>>
  \/ x.t = "number" /\ x.v = <<"0">>
  \/ x.t = "boolean" /\ x.v = <<"false">>

\* a && b && c && d gives its first falsy operand, or its last operand
validateProseMirrorDocument(h, doc) ==
  IF Falsy(doc) THEN doc
  ELSE Boolean(/\ doc.t = "object"
               /\ h[doc.ref].type = "doc"
               /\ h[doc.ref].ckind = "list")

\* a validation that does not look at content
ValidationErrorNoContentTest(h, a) ==
  IF Falsy(a.originalMarkdown) \/ a.originalMarkdown.t # "string"
  THEN "Original markdown must be a non-empty string"
  ELSE IF Falsy(a.modifiedMarkdown) \/ a.modifiedMarkdown.t # "string"
  THEN "Modified markdown must be a non-empty string"
  ELSE IF a.originalProseMirrorDoc = NULL \/ h[a.originalProseMirrorDoc].type # "doc"
  THEN "Original ProseMirror document must be a valid document node"
  ELSE ""

\* lines 43-57: the message of the Error thrown, "" when none is thrown
ValidationError(h, a) ==
  IF Falsy(a.originalMarkdown) \/ a.originalMarkdown.t # "string"
  THEN "Original markdown must be a non-empty string"
  ELSE IF Falsy(a.modifiedMarkdown) \/ a.modifiedMarkdown.t # "string"
  THEN "Modified markdown must be a non-empty string"
  ELSE IF a.originalProseMirrorDoc = NULL \/ h[a.originalProseMirrorDoc].type # "doc"
  THEN "Original ProseMirror document must be a valid document node"
  ELSE IF h[a.originalProseMirrorDoc].ckind # "list"
  THEN "ProseMirror document must have a content array"
  ELSE ""

CallValidateProseMirrorDocument ==
  /\ entry = "validateProseMirrorDocument"
  /\ Return(validateProseMirrorDocument(heap, args[1]))

TransformWithValidationStart ==
  /\ entry = "transformWithValidation"
  /\ pc[1] = "start"
  /\ IF ValidationError(heap, args[1]) # ""
     THEN /\ Settle(1, Rejected(ValidationError(heap, args[1])))
          /\ UNCHANGED <<entry, heap, args, locals, results>>
     ELSE RunToAwait(1)

\* a Markdown argument that is truthy and no string
NumberValue == [t |-> "number", v |-> <<"5">>]

Candidates ==
  { JsValue("null", <<>>, NULL), JsValue("undefined", <<>>, NULL),
    JsValue("string", <<>>, NULL), JsValue("string", <<"d", "o", "c">>, NULL),
    JsValue("number", <<"0">>, NULL), JsValue("number", <<"5">>, NULL),
    Boolean(FALSE), Boolean(TRUE) }
  \cup {JsValue("object", <<>>, id) : id \in 1..Len(PoolHeap)}

ValidationInputs ==
  {TransformArgs(o, m, t, opt) :
     o \in OneLineValues \cup {NumberValue}, m \in OneLineValues \cup {NumberValue},
     t \in AllRoots, opt \in OptionsValues}
  \cup {InsertionScenario, TextChangeScenario, TypeChangeScenario}

InitValidation ==
  \/ /\ entry = "validateProseMirrorDocument"
     /\ heap = PoolHeap
     /\ args \in {<<c>> : c \in Candidates}
     /\ pc = <<"start">>
     /\ locals = <<None>>
     /\ ret = <<None>>
     /\ results = None
  \/ \E a \in ValidationInputs : InitCalls("transformWithValidation", <<a>>)

NextValidation ==
  \/ CallValidateProseMirrorDocument
  \/ TransformWithValidationStart
  \/ TransformContinue(1)

SpecValidation == InitValidation /\ [][NextValidation]_vars

(***************************************************************************)
(* analyzeDocument called on a tree.  The trees are documents of up to     *)
(* MaxBlocks blocks; a block holds text nodes, with and without marks or   *)
(* characters, or other blocks.                                            *)
(***************************************************************************)
AnalyzeBlockPool ==
  { Paragraph(<<"a">>),
    Element("paragraph", None,
      << TextNode(<<"a", "b">>, Some(<<Mark("strong", None)>>)),
         TextNode(<<"c">>, None) >>),
    Element("heading", Some(<< <<"level", 1>> >>), <<TextNode(<<"H">>, None)>>),
    Element("blockquote", None, <<Paragraph(<<"q">>), Paragraph(<<"r">>)>>),
    Element("bullet_list", None,
      <<Element("list_item", None, <<Paragraph(<<"x">>)>>)>>),
    Element("paragraph", None, <<>>),
    Element("paragraph", None, <<TextNode(<<>>, None)>>),
    Element("horizontal_rule", None, <<>>) }

AnalyzeInputs ==
  {Element("doc", None, blocks) :
     blocks \in SeqsUpTo(AnalyzeBlockPool, MaxBlocks) \cup {<<>>}}
    \cup {NullChildDoc}

InitAnalyze ==
  /\ entry = "analyzeDocument"
  /\ \E doc \in AnalyzeInputs :
        /\ heap = AllocAll(EmptyHeap, <<doc>>).heap
        /\ args = <<1>>
  /\ pc = <<"start">>
  /\ locals = <<None>>
  /\ ret = <<None>>
  /\ results = None

\* the value returned is [threw, textOffset, analysis]
CallAnalyzeDocument ==
  /\ entry = "analyzeDocument"
  /\ Return(analyzeDocument(heap, args[1]))

SpecAnalyze == InitAnalyze /\ [][CallAnalyzeDocument]_vars

(***************************************************************************)
(* ImprovedPositionMapper.buildBlockMapping.  A score is a fraction        *)
(* [n, d] in lowest terms, so that sums, products and comparisons are      *)
(* those of the numbers.    The mapping is a list with one optional entry  *)
(* for every Markdown block index.                                         *)
(***************************************************************************)
RECURSIVE GCD(_, _)
GCD(a, b) == IF b = 0 THEN a ELSE GCD(b, a % b)

\* the fraction n / d in lowest terms; n >= 0 and d > 0
Frac(n, d) == [n |-> n \div GCD(n, d), d |-> d \div GCD(n, d)]

FracAdd(a, b) == Frac(a.n * b.d + b.n * a.d, a.d * b.d)

FracMul(a, b) == Frac(a.n * b.n, a.d * b.d)

FracGreater(a, b) == a.n * b.d > b.n * a.d

isBlockLevelNode(nodeType) ==
  nodeType \in {"paragraph", "heading", "list_item", "code_block", "blockquote",
                "bullet_list", "ordered_list"}

\* traverseDocumentStructure is the walk of the analyzer with another test
\* for blockStructure: the entries of depth 1 with a block-level type
analyzeDocumentStructure(h, doc) ==
  With(analyzeDocument(h, doc), LAMBDA r :
    Traversal(r.threw, r.textOffset,
      [r.analysis EXCEPT !.blockStructure =
         SelectSeq(r.analysis.nodeMap,
           LAMBDA info : Len(info.path) = 1 /\ isBlockLevelNode(info.type))]))

\* blockStructure.sort by a.path[0] || 0; the sort is stable
RECURSIVE OrderInto(_, _)
OrderInto(sorted, nodes) ==
  IF nodes = <<>> THEN sorted
  ELSE LET node == Head(nodes)
           after == Cardinality({k \in 1..Len(sorted) :
                                   sorted[k].path[1] <= node.path[1]})
       IN OrderInto(SubSeq(sorted, 1, after) \o <<node>>
                      \o SubSeq(sorted, after + 1, Len(sorted)),
                    Tail(nodes))

extractOrderedBlockNodes(analysis) == OrderInto(<<>>, analysis.blockStructure)

RECURSIVE extractTextRecursively(_, _)
extractTextRecursively(h, node) ==
  IF HasText(h, node) THEN h[node].text[1]
  ELSE IF h[node].ckind = "list"
  THEN Concat([k \in 1..Len(h[node].content) |->
                 extractTextRecursively(h, h[node].content[k])])
  ELSE <<>>

\* the walk along the path gives '' when a step has no node
RECURSIVE extractActualTextFromNode(_, _, _)
extractActualTextFromNode(h, current, path) ==
  IF path = <<>> THEN extractTextRecursively(h, current)
  ELSE IF /\ h[current].ckind = "list"
          /\ Head(path) >= 0
          /\ Head(path) < Len(h[current].content)
          /\ h[current].content[Head(path) + 1] # NULL
  THEN extractActualTextFromNode(h, h[current].content[Head(path) + 1], Tail(path))
  ELSE <<>>

\* { ...node, actualContent }
enrichNodesWithContent(h, blockNodes, proseMirrorDoc) ==
  [k \in 1..Len(blockNodes) |->
     [f \in DOMAIN blockNodes[k] \cup {"actualContent"} |->
        IF f = "actualContent"
        THEN extractActualTextFromNode(h, proseMirrorDoc, blockNodes[k].path)
        ELSE blockNodes[k][f]]]

\* String.prototype.trim
RECURSIVE Trim(_)
Trim(s) ==
  IF s = <<>> THEN s
  ELSE IF IsWhitespace(s[1]) THEN Trim(Tail(s))
  ELSE IF IsWhitespace(s[Len(s)]) THEN Trim(SubSeq(s, 1, Len(s) - 1))
  ELSE s

UpperCase ==
  <<"A", "B", "C", "D", "E", "F", "G", "H", "I", "J", "K", "L", "M", "N", "O",
    "P", "Q", "R", "S", "T", "U", "V", "W", "X", "Y", "Z">>

LowerCase ==
  <<"a", "b", "c", "d", "e", "f", "g", "h", "i", "j", "k", "l", "m", "n", "o",
    "p", "q", "r", "s", "t", "u", "v", "w", "x", "y", "z">>

\* String.prototype.toLowerCase
ToLowerCase(s) ==
  [k \in 1..Len(s) |->
     IF \E u \in 1..Len(UpperCase) : UpperCase[u] = s[k]
     THEN LowerCase[CHOOSE u \in 1..Len(UpperCase) : UpperCase[u] = s[k]]
     ELSE s[k]]

\* .replace(/^#{1,6}\s+/, '')
StripHeadingMarker(s) ==
  LET k == PrefixLen(s, IsHash)
      w == PrefixLen(Slice(s, k + 1), IsWhitespace)
  IN IF k >= 1 /\ k <= 6 /\ w >= 1 THEN Slice(s, k + w + 1) ELSE s

\* one match of open(.*?)close at the start of s
DelimitedMatch(s, open, close) ==
  LET from == Len(open) + 1
      Closes(j) == /\ SubSeq(s, j, j + Len(close) - 1) = close
                   /\ NoNewline(s, from, j - 1)
      Ends == {j \in from..(Len(s) - Len(close) + 1) : Closes(j)}
  IN IF StartsWith(s, open) /\ Ends # {}
     THEN LET j == CHOOSE j \in Ends : \A i \in Ends : j <= i
          IN Matched(SubSeq(s, from, j - 1), <<>>, j + Len(close) - 1)
     ELSE NoMatch

\* .replace(/open(.*?)close/g, '$1')
RECURSIVE ReplaceDelimited(_, _, _)
ReplaceDelimited(s, open, close) ==
  IF s = <<>> THEN s
  ELSE With(DelimitedMatch(s, open, close), LAMBDA m :
         IF m.ok THEN m.text \o ReplaceDelimited(Slice(s, m.length + 1), open, close)
         ELSE <<s[1]>> \o ReplaceDelimited(Tail(s), open, close))

\* one match of /\[(.*?)\]\(.*?\)/ at the start of s
BracketMatch(s) ==
  LET Closes(j) == /\ s[j] = "]"
                   /\ s[j + 1] = "("
                   /\ \E k \in (j + 2)..Len(s) : s[k] = ")" /\ NoNewline(s, 2, k - 1)
      Ends == {j \in 2..(Len(s) - 2) : Closes(j)}
  IN IF StartsWith(s, <<"[">>) /\ Ends # {}
     THEN LET j == CHOOSE j \in Ends : \A i \in Ends : j <= i
          IN Matched(SubSeq(s, 2, j - 1), <<>>, IndexOf(s, ")", j + 2))
     ELSE NoMatch

\* .replace(/\[(.*?)\]\(.*?\)/g, '$1')
RECURSIVE ReplaceLinks(_)
ReplaceLinks(s) ==
  IF s = <<>> THEN s
  ELSE With(BracketMatch(s), LAMBDA m :
         IF m.ok THEN m.text \o ReplaceLinks(Slice(s, m.length + 1))
         ELSE <<s[1]>> \o ReplaceLinks(Tail(s)))

\* block.content.join(' ')
RECURSIVE JoinWithSpace(_)
JoinWithSpace(lines) ==
  IF lines = <<>> THEN <<>>
  ELSE IF Len(lines) = 1 THEN lines[1]
  ELSE lines[1] \o <<" ">> \o JoinWithSpace(Tail(lines))

extractTextFromMarkdownBlock(block) ==
  ToLowerCase(Trim(
    ReplaceDelimited(
      ReplaceLinks(
        ReplaceDelimited(
          ReplaceDelimited(StripHeadingMarker(JoinWithSpace(block.content)),
                           <<"*", "*">>, <<"*", "*">>),
          <<"*">>, <<"*">>)),
      <<Backquote>>, <<Backquote>>)))

\* one row of the matrix of levenshteinDistance: row[i + 1] is matrix[j][i]
RECURSIVE LevenshteinRow(_, _, _, _)
LevenshteinRow(str1, c, above, row) ==
  IF Len(row) > Len(str1) THEN row
  ELSE LET i == Len(row)
           indicator == IF str1[i] = c THEN 0 ELSE 1
       IN LevenshteinRow(str1, c, above,
            Append(row, Min(Min(row[i] + 1, above[i + 1] + 1), above[i] + indicator)))

RECURSIVE LevenshteinRows(_, _, _, _)
LevenshteinRows(str1, str2, j, above) ==
  IF j > Len(str2) THEN above
  ELSE LevenshteinRows(str1, str2, j + 1, LevenshteinRow(str1, str2[j], above, <<j>>))

levenshteinDistance(str1, str2) ==
  LevenshteinRows(str1, str2, 1, [i \in 1..(Len(str1) + 1) |-> i - 1])[Len(str1) + 1]

\* text1.includes(text2)
Includes(text1, text2) ==
  \E k \in 0..(Len(text1) - Len(text2)) :
    SubSeq(text1, k + 1, k + Len(text2)) = text2

getTextSimilarity(text1, text2) ==
  IF text1 = text2 THEN Frac(1, 1)
  ELSE IF Len(text1) = 0 \/ Len(text2) = 0 THEN Frac(0, 1)
  ELSE IF Includes(text1, text2) \/ Includes(text2, text1) THEN Frac(8, 10)
  ELSE LET maxLength == Max(Len(text1), Len(text2))
       IN Frac(maxLength - levenshteinDistance(text1, text2), maxLength)

getLengthSimilarity(len1, len2) ==
  IF len1 = 0 /\ len2 = 0 THEN Frac(1, 1)
  ELSE Frac(Min(len1, len2), Max(len1, len2))

getTypeMatchScore(mdType, pmType) ==
  IF mdType = pmType THEN Frac(1, 1)
  ELSE IF mdType = "list_item" /\ pmType \in {"bullet_list", "ordered_list"}
  THEN Frac(8, 10)
  ELSE Frac(0, 1)

\* the characters of a type name
TypeName(type) ==
  CASE type = "paragraph" -> <<"p", "a", "r", "a", "g", "r", "a", "p", "h">>
    [] type = "heading" -> <<"h", "e", "a", "d", "i", "n", "g">>
    [] type = "list_item" -> <<"l", "i", "s", "t", "_", "i", "t", "e", "m">>
    [] type = "code_block" -> <<"c", "o", "d", "e", "_", "b", "l", "o", "c", "k">>
    [] type = "blockquote" -> <<"b", "l", "o", "c", "k", "q", "u", "o", "t", "e">>
    [] type = "bullet_list" -> <<"b", "u", "l", "l", "e", "t", "_", "l", "i", "s", "t">>
    [] type = "ordered_list" ->
         <<"o", "r", "d", "e", "r", "e", "d", "_", "l", "i", "s", "t">>

extractTextFromProseMirrorNode(nodeInfo) ==
  IF nodeInfo.actualContent # <<>> THEN ToLowerCase(Trim(nodeInfo.actualContent))
  ELSE ToLowerCase(TypeName(nodeInfo.type))

calculateContentSimilarity(mdBlock, pmNode) ==
  With(getTypeMatchScore(mdBlock.type, pmNode.type), LAMBDA typeScore :
    IF typeScore.n = 0 THEN Frac(0, 1)
    ELSE With(extractTextFromMarkdownBlock(mdBlock), LAMBDA mdContent :
         With(extractTextFromProseMirrorNode(pmNode), LAMBDA pmContent :
           FracAdd(FracAdd(FracMul(typeScore, Frac(5, 10)),
                           FracMul(getTextSimilarity(mdContent, pmContent), Frac(4, 10))),
                   FracMul(getLengthSimilarity(Len(mdContent), Len(pmContent)),
                           Frac(1, 10))))))

\* the inner loop: the 0-based index of the best unused block, -1 for none
RECURSIVE FindBestMatch(_, _, _, _, _, _)
FindBestMatch(mdBlock, proseMirrorBlocks, used, pmIndex, bestMatch, bestScore) ==
  IF pmIndex >= Len(proseMirrorBlocks) THEN bestMatch
  ELSE IF pmIndex \in used
  THEN FindBestMatch(mdBlock, proseMirrorBlocks, used, pmIndex + 1, bestMatch, bestScore)
  ELSE With(calculateContentSimilarity(mdBlock, proseMirrorBlocks[pmIndex + 1]),
         LAMBDA score :
           IF FracGreater(score, bestScore) /\ FracGreater(score, Frac(7, 10))
           THEN FindBestMatch(mdBlock, proseMirrorBlocks, used, pmIndex + 1,
                              pmIndex, score)
           ELSE FindBestMatch(mdBlock, proseMirrorBlocks, used, pmIndex + 1,
                              bestMatch, bestScore))

\* an outer loop that does not keep the blocks it has given away
RECURSIVE AlignLoopReusing(_, _, _, _, _)
AlignLoopReusing(markdownBlocks, proseMirrorBlocks, mdIndex, used, mapping) ==
  IF mdIndex >= Len(markdownBlocks) THEN mapping
  ELSE With(FindBestMatch(markdownBlocks[mdIndex + 1], proseMirrorBlocks, used,
                          0, -1, Frac(0, 1)),
         LAMBDA bestMatch :
           AlignLoopReusing(markdownBlocks, proseMirrorBlocks, mdIndex + 1, used,
             Append(mapping, IF bestMatch # -1
                             THEN Some(proseMirrorBlocks[bestMatch + 1])
                             ELSE None)))

\* the outer loop
RECURSIVE AlignLoop(_, _, _, _, _)
AlignLoop(markdownBlocks, proseMirrorBlocks, mdIndex, used, mapping) ==
  IF mdIndex >= Len(markdownBlocks) THEN mapping
  ELSE With(FindBestMatch(markdownBlocks[mdIndex + 1], proseMirrorBlocks, used,
                          0, -1, Frac(0, 1)),
         LAMBDA bestMatch :
           IF bestMatch # -1
           THEN AlignLoop(markdownBlocks, proseMirrorBlocks, mdIndex + 1,
                          used \cup {bestMatch},
                          Append(mapping, Some(proseMirrorBlocks[bestMatch + 1])))
           ELSE AlignLoop(markdownBlocks, proseMirrorBlocks, mdIndex + 1, used,
                          Append(mapping, None)))

alignBlocksWithContent(markdownBlocks, proseMirrorBlocks) ==
  IF Len(markdownBlocks) = Len(proseMirrorBlocks)
  THEN [i \in 1..Len(markdownBlocks) |-> Some(proseMirrorBlocks[i])]
  ELSE AlignLoop(markdownBlocks, proseMirrorBlocks, 0, {}, <<>>)

\* gives [threw, mapping]
buildBlockMapping(h, markdownBlocks, proseMirrorDoc) ==
  With(analyzeDocumentStructure(h, proseMirrorDoc), LAMBDA r :
    IF r.threw THEN [threw |-> TRUE, mapping |-> <<>>]
    ELSE [threw |-> FALSE,
          mapping |->
            alignBlocksWithContent(markdownBlocks,
              enrichNodesWithContent(h, extractOrderedBlockNodes(r.analysis),
                                     proseMirrorDoc))])

\* the lines of the Markdown texts of the calls
MappingLinePool ==
  { <<"#", " ", "H">>, <<"#", " ", "*", "H", "*", "o">>, <<"a">>,
    <<"-", " ", "x">> }

\* the blocks of the trees of the calls
MappingBlockPool ==
  { Element("heading", Some(<< <<"level", 1>> >>), <<TextNode(<<"H">>, None)>>),
    Element("heading", Some(<< <<"level", 1>> >>), <<TextNode(<<"H", "i">>, None)>>),
    Element("bullet_list", None,
      <<Element("list_item", None, <<Paragraph(<<"x">>)>>)>>),
    Element("horizontal_rule", None, <<>>) }

MappingArgs(markdownBlocks, proseMirrorDoc) ==
  [markdownBlocks |-> markdownBlocks, proseMirrorDoc |-> proseMirrorDoc]

\* the block lists the parser gives for the texts of up to MaxLines lines
MappingBlockLists ==
  {parseToBlocks(Join(ls)) : ls \in SeqsUpTo(MappingLinePool, MaxLines)}

\* the heaps that hold one tree of up to MaxBlocks blocks, its root first
MappingHeaps ==
  {AllocAll(EmptyHeap, <<Element("doc", None, blocks)>>).heap :
     blocks \in SeqsUpTo(MappingBlockPool, MaxBlocks) \cup {<<>>}}
    \cup {AllocAll(EmptyHeap, <<NullChildDoc>>).heap}

InitMapping ==
  /\ entry = "buildBlockMapping"
  /\ heap \in MappingHeaps
  /\ args \in {<<MappingArgs(blocks, 1)>> : blocks \in MappingBlockLists}
  /\ pc = <<"start">>
  /\ locals = <<None>>
  /\ ret = <<None>>
  /\ results = None

CallBuildBlockMapping ==
  /\ entry = "buildBlockMapping"
  /\ Return(buildBlockMapping(heap, args[1].markdownBlocks, args[1].proseMirrorDoc))

SpecMapping == InitMapping /\ [][CallBuildBlockMapping]_vars

(***************************************************************************)
(* Properties.                                                             *)
(***************************************************************************)
\* the value of call i, once it is fulfilled
ResultOf(i) == ret[i][1].value[1]

\* a caller's tree that is a tree: no null node, every content a list
IsTree(root) ==
  /\ root # NULL
  /\ \A id \in Reachable(PoolHeap, root) :
       /\ PoolHeap[id].ckind # "other"
       /\ \A c \in 1..Len(PoolHeap[id].content) : PoolHeap[id].content[c] # NULL

\* the text has the piece as a substring
Contains(text, piece) ==
  \E k \in 0..(Len(text) - Len(piece)) : SubSeq(text, k + 1, k + Len(piece)) = piece

\* a finished transform(M, M, T) on a tree, without options
IdempotenceCase ==
  /\ Returned("transform")
  /\ args[1].options = NoOptions
  /\ args[1].originalMarkdown.t = "string"
  /\ args[1].modifiedMarkdown = args[1].originalMarkdown
  /\ IsTree(args[1].originalProseMirrorDoc)

\* C1: transform(M, M, T) succeeds with no operations and a newDocument
\* that is deep-equal to T, for every Markdown text M and every tree T.
C1_Idempotence ==
  IdempotenceCase =>
    /\ ret[1][1].status = "fulfilled"
    /\ ResultOf(1).success
    /\ ResultOf(1).operations = <<>>
    /\ Val(heap, ResultOf(1).newDocument)
         = Val(PoolHeap, args[1].originalProseMirrorDoc)

\* a text of several blocks on a tree of several blocks
C1_Witness ==
  /\ IdempotenceCase
  /\ Len(parseToBlocks(args[1].originalMarkdown.v)) >= 2
  /\ Len(PoolHeap[args[1].originalProseMirrorDoc].content) >= 2

\* C2: applyOperationsToDocument leaves every object of the caller's tree
\* as it was, whatever the operations are, and the document it returns
\* shares no node object with the objects that existed before the call.
C2_OriginalUntouched ==
  Returned("applyOperationsToDocument") =>
    /\ \A id \in 1..Len(PoolHeap) : heap[id] = PoolHeap[id]
    /\ Val(heap, args[1].originalDoc) = Val(PoolHeap, args[1].originalDoc)
    /\ Reachable(heap, ret[1][1]) \cap (1..Len(PoolHeap)) = {}

\* two operations were given and the returned document differs from the original
C2_Witness ==
  /\ Returned("applyOperationsToDocument")
  /\ Len(args[1].operations) = 2
  /\ args[1].originalDoc # NULL
  /\ Val(heap, ret[1][1]) # Val(PoolHeap, args[1].originalDoc)

\* the result the catch block of transform builds
IsFailureOf(result, a) ==
  /\ ~result.success
  /\ result.newDocument = a.originalProseMirrorDoc
  /\ result.operations = <<>>
  /\ Len(result.errors) = 1
  /\ result.statistics = [nodesModified |-> 0, textChanges |-> 0, structuralChanges |-> 0]

\* C3: transform never rejects, for any inputs; when it does not succeed
\* its result is the failure result, whose newDocument is the caller's
\* tree, unchanged.
C3_NeverRejects ==
  Returned("transform") =>
    /\ ret[1][1].status = "fulfilled"
    /\ ~ResultOf(1).success =>
         /\ IsFailureOf(ResultOf(1), args[1])
         /\ heap = PoolHeap

\* two results agree: a result of the batch in heap h1 and a result of a
\* call alone in heap h2 (their new documents are distinct objects)
SameResult(r1, h1, r2, h2) ==
  /\ r1.success = r2.success
  /\ r1.operations = r2.operations
  /\ r1.errors = r2.errors
  /\ r1.statistics = r2.statistics
  /\ Val(h1, r1.newDocument) = Val(h2, r2.newDocument)
  /\ ~r1.success => r1.newDocument = r2.newDocument

PlainRequest(a) ==
  /\ a.originalMarkdown.t = "string"
  /\ a.modifiedMarkdown.t = "string"
  /\ a.options # NullOptions

\* C5: in a batch of three requests where only request #2 has an invalid
\* tree, there are three results, results[0] and results[2] succeed and
\* results[1] fails with a non-empty errors list.
C5_InvalidTreeFails ==
  (/\ results # None
   /\ Len(args) = 3
   /\ \A i \in 1..3 : PlainRequest(args[i])
   /\ args[1].originalProseMirrorDoc \in ValidRoots
   /\ args[2].originalProseMirrorDoc \in InvalidRoots
   /\ args[3].originalProseMirrorDoc \in ValidRoots)
  => /\ Len(results[1]) = 3
     /\ results[1][1].success
     /\ results[1][3].success
     /\ ~results[1][2].success
     /\ Len(results[1][2].errors) > 0

OnlyBlockDiffers(p) ==
  LET originalBlocks == parseToBlocks(args[1].originalMarkdown.v)
      modifiedBlocks == parseToBlocks(args[1].modifiedMarkdown.v)
  IN /\ Len(originalBlocks) = Len(modifiedBlocks)
     /\ p \in 1..Len(originalBlocks)
     /\ \A k \in 1..Len(originalBlocks) :
          k # p => /\ originalBlocks[k].type = modifiedBlocks[k].type
                   /\ originalBlocks[k].content = modifiedBlocks[k].content

\* a finished call on two texts where only block p changed its text,
\* keeping its type, and the tree has a block at that position
TextModificationCase(p) ==
  /\ Returned("transform")
  /\ PlainRequest(args[1])
  /\ OnlyBlockDiffers(p)
  /\ LET originalBlocks == parseToBlocks(args[1].originalMarkdown.v)
         modifiedBlocks == parseToBlocks(args[1].modifiedMarkdown.v)
     IN /\ originalBlocks[p].type = modifiedBlocks[p].type
        /\ originalBlocks[p].content # modifiedBlocks[p].content
  /\ \E walk \in {analyzeDocument(PoolHeap, args[1].originalProseMirrorDoc)} :
       ~walk.threw /\ p <= Len(walk.analysis.blockStructure)

\* C7: when exactly one block changes its text and keeps its type and
\* position, and the tree has a block at that position, transform returns
\* exactly one operation, a replace from the old block text to the new one,
\* with textChanges = 1 and structuralChanges = 0.
C7_TextModification ==
  \A p \in 1..Len(parseToBlocks(args[1].originalMarkdown.v)) :
    TextModificationCase(p) =>
      /\ ret[1][1].status = "fulfilled"
      /\ ResultOf(1).success
      /\ Len(ResultOf(1).operations) = 1
      /\ ResultOf(1).operations[1].type = "replace"
      /\ ResultOf(1).operations[1].originalContent =
           Some(Join(parseToBlocks(args[1].originalMarkdown.v)[p].content))
      /\ ResultOf(1).operations[1].content =
           Some(Join(parseToBlocks(args[1].modifiedMarkdown.v)[p].content))
      /\ ResultOf(1).statistics.textChanges = 1
      /\ ResultOf(1).statistics.structuralChanges = 0

\* the second block of two changed its text
C7_Witness == TextModificationCase(2)

\* the tree of the call is flat and its blocks are, in order, the blocks of
\* the original text that are not blank lines
TreeMatchesOriginal ==
  LET originalBlocks == parseToBlocks(args[1].originalMarkdown.v)
      written == SelectSeq(originalBlocks, LAMBDA b : b.type # "empty")
      root == PoolHeap[args[1].originalProseMirrorDoc]
  IN /\ IsTree(args[1].originalProseMirrorDoc)
     /\ root.type = "doc"
     /\ Len(root.content) = Len(written)
     /\ \A k \in 1..Len(written) :
          /\ PoolHeap[root.content[k]].type = mapBlockTypeToProseMirror(written[k].type)
          /\ PoolHeap[root.content[k]].type \in {"paragraph", "heading"}

\* the number of blocks before the block with 1-based index p that are not
\* blank lines: the 0-based index of the block's node in a matching tree
TreeIndex(p) ==
  Cardinality({k \in 1..(p - 1) :
                 parseToBlocks(args[1].originalMarkdown.v)[k].type # "empty"})

\* a finished call where the paragraph block p of the original text is a
\* heading block in the modified text, nothing else changed
TypeChangeCase(p) ==
  /\ Returned("transform")
  /\ PlainRequest(args[1])
  /\ OnlyBlockDiffers(p)
  /\ parseToBlocks(args[1].originalMarkdown.v)[p].type = "paragraph"
  /\ parseToBlocks(args[1].modifiedMarkdown.v)[p].type = "heading"
  /\ TreeMatchesOriginal

\* C8: when a paragraph block becomes a heading block at the same
\* position, transform returns exactly two operations, delete_node then
\* insert_node, with structuralChanges = 2, and the new root has as many
\* children as before, with a heading where the paragraph was.
C8_TypeChange ==
  \A p \in 1..Len(parseToBlocks(args[1].originalMarkdown.v)) :
    TypeChangeCase(p) =>
      /\ ret[1][1].status = "fulfilled"
      /\ ResultOf(1).success
      /\ Len(ResultOf(1).operations) = 2
      /\ ResultOf(1).operations[1].type = "delete_node"
      /\ ResultOf(1).operations[2].type = "insert_node"
      /\ ResultOf(1).statistics.structuralChanges = 2
      /\ Len(heap[ResultOf(1).newDocument].content)
           = Len(PoolHeap[args[1].originalProseMirrorDoc].content)
      /\ heap[heap[ResultOf(1).newDocument].content[TreeIndex(p) + 1]].type = "heading"

\* C9: the blocks parseToBlocks returns tile the lines of the input, in
\* order, without gap or overlap, and each block holds exactly the input
\* lines of its range.
C9_Partition ==
  Returned("parseToBlocks") =>
    LET blocks == ret[1][1]
        lines == Split(args[1])
    IN /\ Len(blocks) >= 1
       /\ blocks[1].startLine = 0
       /\ blocks[Len(blocks)].endLine = Len(lines) - 1
       /\ \A k \in 1..(Len(blocks) - 1) : blocks[k + 1].startLine = blocks[k].endLine + 1
       /\ \A k \in 1..Len(blocks) :
            /\ blocks[k].startLine <= blocks[k].endLine
            /\ Len(blocks[k].content) = blocks[k].endLine - blocks[k].startLine + 1
            /\ blocks[k].content =
                 SubSeq(lines, blocks[k].startLine + 1, blocks[k].endLine + 1)

\* several blocks were returned, one of them of several lines
C9_Witness ==
  /\ Returned("parseToBlocks")
  /\ Len(ret[1][1]) >= 2
  /\ \E k \in 1..Len(ret[1][1]) : ret[1][1][k].endLine > ret[1][1][k].startLine

\* C10: parseInlineMarkdown never returns two adjacent tokens with equal
\* mark lists: the same mark types in the same order, and for link marks
\* the same href.
C10_MergedTokens ==
  Returned("parseInlineMarkdown") =>
    \A k \in 1..(Len(ret[1][1]) - 1) : ret[1][1][k].marks # ret[1][1][k + 1].marks

\* the loop produced two adjacent tokens with the same marks, which were
\* merged, and the result keeps two links that differ in their href apart
C10_Witness ==
  /\ Returned("parseInlineMarkdown")
  /\ LET tokens == InlineTokens(args[1], 1, <<>>) IN
     \E k \in 1..(Len(tokens) - 1) :
       tokens[k].marks # None /\ tokens[k].marks = tokens[k + 1].marks
  /\ \E k \in 1..(Len(ret[1][1]) - 1) :
       /\ ret[1][1][k].marks # None
       /\ ret[1][1][k + 1].marks # None
       /\ ret[1][1][k].marks[1][1].type = "link"
       /\ ret[1][1][k + 1].marks[1][1].type = "link"

\* the operation's path names a place of the tree: the parent of an
\* insertion, the node itself for every other operation
PathResolves(h, doc, operation) ==
  getNodeAtPath(h, doc,
    IF operation.type = "insert_node" THEN ParentPath(PathOf(operation))
    ELSE PathOf(operation)) # THROW

\* some operation of the list throws when the list is applied in order
RECURSIVE AnyThrown(_, _, _)
AnyThrown(h, doc, sortedOps) ==
  IF sortedOps = <<>> THEN FALSE
  ELSE With(applyOperation(h, doc, Head(sortedOps)), LAMBDA r :
         r.threw \/ AnyThrown(r.heap, doc, Tail(sortedOps)))

\* the paths of all operations resolve in the tree the call was given
ResolvingCase ==
  /\ Returned("applyOperationsToDocument")
  /\ IsTree(args[1].originalDoc)
  /\ \A k \in 1..Len(args[1].operations) :
       PathResolves(PoolHeap, args[1].originalDoc, args[1].operations[k])

SameOutcome(o1, h1, o2, h2) ==
  /\ o1.status = o2.status
  /\ o1.reason = o2.reason
  /\ o1.status = "fulfilled" => SameResult(o1.value[1], h1, o2.value[1], h2)

\* C12: while the transform calls of a batch run interleaved at their
\* awaits, also on one shared tree, every call that has settled has the
\* outcome it has when run alone, and the callers' trees are unchanged.
C12_Reentrancy ==
  entry = "batchTransform" =>
    /\ \A id \in 1..Len(PoolHeap) : heap[id] = PoolHeap[id]
    /\ \A i \in Calls :
         pc[i] = "done" =>
           \E alone \in {TransformAlone(PoolHeap, args[i])} :
             SameOutcome(ret[i][1], heap, alone.outcome, alone.heap)

\* a call is suspended at its await while a later call on the same tree
\* has finished with a new tree that differs from the shared one
C12_Witness ==
  /\ entry = "batchTransform"
  /\ \E i, j \in Calls :
       /\ i < j
       /\ args[i].originalProseMirrorDoc = args[j].originalProseMirrorDoc
       /\ pc[i] = "awaiting"
       /\ Len(locals[i][1]) > 0
       /\ pc[j] = "done"
       /\ ret[j][1].status = "fulfilled"
       /\ ResultOf(j).success
       /\ Val(heap, ResultOf(j).newDocument)
            # Val(PoolHeap, args[j].originalProseMirrorDoc)

\* the candidate is an object whose type is "doc" and whose content is a list
IsDocumentTree(c) ==
  /\ c.t = "object"
  /\ PoolHeap[c.ref].type = "doc"
  /\ PoolHeap[c.ref].ckind = "list"

\* C13: validateProseMirrorDocument returns the boolean true when the
\* candidate is an object of type "doc" whose content is a list, and the
\* boolean false for every other candidate, a "doc" object without content
\* among them.
C13_ValidateBoolean ==
  Returned("validateProseMirrorDocument") =>
    ret[1][1] = Boolean(IsDocumentTree(args[1]))

\* the input is one the validating entry point is to refuse
InvalidInput(a) ==
  \/ ~(a.originalMarkdown.t = "string" /\ a.originalMarkdown.v # <<>>)
  \/ ~(a.modifiedMarkdown.t = "string" /\ a.modifiedMarkdown.v # <<>>)
  \/ a.originalProseMirrorDoc = NULL
  \/ PoolHeap[a.originalProseMirrorDoc].type # "doc"
  \/ PoolHeap[a.originalProseMirrorDoc].ckind # "list"

\* C14: transformWithValidation fails at once, before anything is parsed,
\* diffed or applied, when a Markdown argument is not a non-empty string,
\* the root is not a "doc" or the tree has no content list; for every
\* other input it settles as transform does for the same arguments.
C14_ValidationFirst ==
  entry = "transformWithValidation" =>
    IF InvalidInput(args[1])
    THEN /\ pc[1] # "awaiting"
         /\ locals[1] = None
         /\ heap = PoolHeap
         /\ pc[1] = "done" => ret[1][1].status = "rejected" /\ ret[1][1].reason # ""
    ELSE pc[1] = "done" =>
           \E alone \in {TransformAlone(PoolHeap, args[1])} :
             SameOutcome(ret[1][1], heap, alone.outcome, alone.heap)

\* a call with good texts and a "doc" without content was refused
C14_Witness ==
  /\ entry = "transformWithValidation"
  /\ pc[1] = "done"
  /\ args[1].originalMarkdown.t = "string" /\ args[1].originalMarkdown.v # <<>>
  /\ args[1].modifiedMarkdown.t = "string" /\ args[1].modifiedMarkdown.v # <<>>
  /\ args[1].originalProseMirrorDoc = RootOf(NoContentDoc)
  /\ ret[1][1] = Rejected("ProseMirror document must have a content array")

\* the entries of a block diff with the given position
EntriesAt(diff, k) == SelectSeq(diff, LAMBDA d : d.position = k)

\* C15: for every index k both block sequences have, the diff holds for
\* position k: nothing when the two blocks agree in type, content and
\* attrs; one modify_block with one text_change (position 0, length of the
\* joined original lines, old and new text) when the types agree and the
\* content differs; one replace_block with both blocks when the types
\* differ.
C15_AlignedDiff ==
  Returned("computeBlockDiff") =>
    LET o == args[1].originalBlocks
        m == args[1].modifiedBlocks
    IN \A k \in 0..(Min(Len(o), Len(m)) - 1) :
         LET at == EntriesAt(ret[1][1], k)
             sameType == o[k + 1].type = m[k + 1].type
             sameContent == o[k + 1].content = m[k + 1].content
             equal == sameType /\ sameContent /\ o[k + 1].attrs = m[k + 1].attrs
         IN /\ (at = <<>>) <=> equal
            /\ (sameType /\ ~sameContent) <=>
                 at = << BlockDiffOperation("modify_block", k, Some(o[k + 1]),
                           Some(m[k + 1]),
                           Some(<< [type |-> "text_change", position |-> 0,
                                    length |-> Len(Join(o[k + 1].content)),
                                    oldText |-> Join(o[k + 1].content),
                                    newText |-> Join(m[k + 1].content)] >>)) >>
            /\ ~sameType <=>
                 at = << BlockDiffOperation("replace_block", k, Some(o[k + 1]),
                           Some(m[k + 1]), None) >>

\* a diff with a modify_block and a replace_block
C15_Witness ==
  /\ Returned("computeBlockDiff")
  /\ \E p, q \in 1..Len(ret[1][1]) :
       /\ ret[1][1][p].type = "modify_block"
       /\ ret[1][1][p].contentChanges[1][1].length > 0
       /\ ret[1][1][q].type = "replace_block"

\* the insert_block and delete_block entries of a block diff
TailEntries(diff) ==
  SelectSeq(diff, LAMBDA d : d.type \in {"insert_block", "delete_block"})

\* C16: with n original and m modified blocks, the diff ends with one
\* insert_block per modified block from n on, in order and all at position
\* n, when n < m; with one delete_block per original block k from m on, at
\* position k, when n > m; it never holds both kinds, and positions never
\* decrease along the diff.
C16_TailDiff ==
  Returned("computeBlockDiff") =>
    LET o == args[1].originalBlocks
        m == args[1].modifiedBlocks
        diff == ret[1][1]
        tail == TailEntries(diff)
    IN /\ Len(o) < Len(m) =>
            tail = [j \in 1..(Len(m) - Len(o)) |->
                      BlockDiffOperation("insert_block", Len(o), None,
                                         Some(m[Len(o) + j]), None)]
       /\ Len(o) > Len(m) =>
            tail = [k \in 1..(Len(o) - Len(m)) |->
                      BlockDiffOperation("delete_block", Len(m) + k - 1,
                                         Some(o[Len(m) + k]), None, None)]
       /\ Len(o) = Len(m) => tail = <<>>
       /\ SubSeq(diff, Len(diff) - Len(tail) + 1, Len(diff)) = tail
       /\ \A q \in 1..(Len(diff) - 1) : diff[q].position <= diff[q + 1].position

\* a diff with an aligned entry followed by two insert_block entries
C16_Witness ==
  /\ Returned("computeBlockDiff")
  /\ Len(ret[1][1]) >= 3
  /\ ret[1][1][1].type \in {"modify_block", "replace_block"}
  /\ Len(TailEntries(ret[1][1])) >= 2
  /\ ret[1][1][Len(ret[1][1])].type = "insert_block"

\* the value of the node insertNode builds for a block
InsertedNode(block) ==
  Node(IF block.type \in {"heading", "paragraph", "list_item", "code_block",
                          "blockquote", "horizontal_rule"}
       THEN block.type ELSE "paragraph",
       block.attrs, "list", parseContentToNodes(Join(block.content)), None, None)

\* the elements of xs occur in ys, in the order of xs
RECURSIVE IsSubsequence(_, _)
IsSubsequence(xs, ys) ==
  IF xs = <<>> THEN TRUE
  ELSE IF ys = <<>> THEN FALSE
  ELSE IF Head(xs) = Head(ys) THEN IsSubsequence(Tail(xs), Tail(ys))
  ELSE IsSubsequence(xs, Tail(ys))

\* a finished call whose modified text is the original text followed by
\* two or more new blocks, on a valid tree
AppendCase ==
  /\ Returned("transform")
  /\ PlainRequest(args[1])
  /\ args[1].originalProseMirrorDoc \in ValidRoots
  /\ LET o == parseToBlocks(args[1].originalMarkdown.v)
         m == parseToBlocks(args[1].modifiedMarkdown.v)
     IN /\ Len(m) >= Len(o) + 2
        /\ SubSeq(m, 1, Len(o)) = o

\* C17: when the modified text adds two or more blocks after the last
\* original block, the nodes inserted for them are children of the new
\* root in the order of their blocks.
C17_AppendedOrder ==
  AppendCase =>
    /\ ret[1][1].status = "fulfilled"
    /\ ResultOf(1).success
    /\ LET o == parseToBlocks(args[1].originalMarkdown.v)
           m == parseToBlocks(args[1].modifiedMarkdown.v)
           children == heap[ResultOf(1).newDocument].content
       IN IsSubsequence([j \in 1..(Len(m) - Len(o)) |-> InsertedNode(m[Len(o) + j])],
                        [c \in 1..Len(children) |-> Val(heap, children[c])])

\* C18: when transform succeeds with no operations, the two texts have the
\* same blocks: no change found by the block diff is dropped.
C18_NoSilentDrop ==
  (/\ Returned("transform")
   /\ ret[1][1].status = "fulfilled"
   /\ ResultOf(1).success
   /\ ResultOf(1).operations = <<>>)
  => parseToBlocks(args[1].originalMarkdown.v) = parseToBlocks(args[1].modifiedMarkdown.v)

\* the block diff and the tree analysis the mapper of the call works on
DiffOfCall ==
  computeBlockDiff(parseToBlocks(args[1].originalMarkdown.v),
                   parseToBlocks(args[1].modifiedMarkdown.v))

BlockStructureOfCall ==
  analyzeDocument(PoolHeap, args[1].originalProseMirrorDoc).analysis.blockStructure

\* the call has mapped its block diff to operations
MappedCase == entry = "transform" /\ locals[1] # None

\* C19: the operations hold, for every replace_block at position p, a
\* delete_node at the path of blockStructure[p] with next to it an
\* insert_node at [p] with the joined lines of the new block and its mapped
\* type; for every insert_block at p an insert_node at [p], and one
\* insert_node per such entry; operations are of the four tree-edit types.
C19_Decomposition ==
  MappedCase =>
    LET ops == locals[1][1]
        diff == DiffOfCall
        blockStructure == BlockStructureOfCall
        IsInsertFor(op, d) ==
          /\ op.type = "insert_node"
          /\ op.prosemirrorPath = Some(<<d.position>>)
          /\ op.content = Some(Join(d.newBlock[1].content))
          /\ op.nodeType = Some(InsertedNode(d.newBlock[1]).type)
    IN /\ \A d \in 1..Len(diff) :
            diff[d].type = "replace_block" =>
              \E q \in 1..(Len(ops) - 1) :
                /\ ops[q].type = "delete_node"
                /\ diff[d].position < Len(blockStructure)
                /\ ops[q].prosemirrorPath =
                     Some(blockStructure[diff[d].position + 1].path)
                /\ IsInsertFor(ops[q + 1], diff[d])
       /\ \A d \in 1..Len(diff) :
            diff[d].type = "insert_block" =>
              \E q \in 1..Len(ops) : IsInsertFor(ops[q], diff[d])
       /\ Cardinality({q \in 1..Len(ops) : ops[q].type = "insert_node"})
            = Cardinality({d \in 1..Len(diff) :
                             diff[d].type \in {"insert_block", "replace_block"}})
       /\ \A q \in 1..Len(ops) :
            ops[q].type \in {"insert_node", "delete_node", "replace", "modify_node"}

\* the number of characters of the text before its line with 0-based
\* index line
LineOffset(text, line) ==
  LET newlines == {i \in 1..Len(text) : text[i] = NL} IN
  IF line = 0 THEN 0
  ELSE CHOOSE i \in newlines : Cardinality({j \in newlines : j <= i}) = line

\* C20: the markdownPosition of every insert_node is the offset of the
\* first line of its block in the modified text, and that of every
\* delete_node the offset of the first line of its block in the original
\* text.
C20_Anchors ==
  MappedCase =>
    LET ops == locals[1][1]
        mapped(d) == d.position < Len(BlockStructureOfCall)
        inserts == SelectSeq(ops, LAMBDA op : op.type = "insert_node")
        inserted == SelectSeq(DiffOfCall, LAMBDA d :
                      \/ d.type = "insert_block"
                      \/ d.type = "replace_block" /\ mapped(d))
        deletes == SelectSeq(ops, LAMBDA op : op.type = "delete_node")
        deleted == SelectSeq(DiffOfCall, LAMBDA d :
                     d.type \in {"delete_block", "replace_block"} /\ mapped(d))
    IN /\ Len(inserts) = Len(inserted)
       /\ Len(deletes) = Len(deleted)
       /\ \A q \in 1..Len(inserts) :
            inserts[q].markdownPosition =
              LineOffset(args[1].modifiedMarkdown.v, inserted[q].newBlock[1].startLine)
       /\ \A q \in 1..Len(deletes) :
            deletes[q].markdownPosition =
              LineOffset(args[1].originalMarkdown.v, deleted[q].originalBlock[1].startLine)

\* path a is greater than path b of the same length, compared component
\* by component from the last index backward
GreaterFromLast(a, b) ==
  \E i \in 1..Len(a) :
    /\ a[i] > b[i]
    /\ \A j \in (i + 1)..Len(a) : a[j] = b[j]

\* operation a is to be applied before operation b
AppliedBefore(a, b) ==
  \/ Len(PathOf(a)) > Len(PathOf(b))
  \/ /\ Len(PathOf(a)) = Len(PathOf(b))
     /\ GreaterFromLast(PathOf(a), PathOf(b))

\* sorted is a rearrangement of operations: position k of sorted holds the
\* operation given at position perm[k]
Rearranges(perm, sorted, operations) ==
  /\ Len(sorted) = Len(operations)
  /\ \A k \in 1..Len(sorted) : sorted[k] = operations[perm[k]]
  /\ \A k, l \in 1..Len(sorted) : k # l => perm[k] # perm[l]

\* C21: the operations are applied longer paths first, among paths of one
\* length the greater one (compared from the last index backward) first,
\* and operations with one and the same path in the order they were given,
\* whatever their types.
C21_ApplicationOrder ==
  Returned("applyOperationsToDocument") =>
    LET operations == args[1].operations
        sorted == locals[1][1]
    IN \E perm \in [1..Len(operations) -> 1..Len(operations)] :
         /\ Rearranges(perm, sorted, operations)
         /\ \A k, l \in 1..Len(sorted) :
              k < l =>
                /\ ~AppliedBefore(sorted[l], sorted[k])
                /\ PathOf(sorted[k]) = PathOf(sorted[l]) => perm[k] < perm[l]

\* a delete_node given before an insert_node of the same path was applied
\* before it
C21_Witness ==
  /\ Returned("applyOperationsToDocument")
  /\ Len(args[1].operations) = 2
  /\ args[1].operations[1].type = "delete_node"
  /\ args[1].operations[2].type = "insert_node"
  /\ PathOf(args[1].operations[1]) = PathOf(args[1].operations[2])
  /\ locals[1][1] = args[1].operations
  /\ Val(heap, ret[1][1]) # Val(PoolHeap, args[1].originalDoc)

\* the operations, each with the position it was given at
Tagged(operations) ==
  [k \in 1..Len(operations) |->
     [f \in DOMAIN operations[k] \cup {"tag"} |->
        IF f = "tag" THEN k ELSE operations[k][f]]]

\* the positions of the operations that throw when the list is applied
RECURSIVE FailedTags(_, _, _)
FailedTags(h, doc, sortedOps) ==
  IF sortedOps = <<>> THEN {}
  ELSE With(applyOperation(h, doc, Head(sortedOps)), LAMBDA r :
         (IF r.threw THEN {Head(sortedOps).tag} ELSE {})
           \cup FailedTags(r.heap, doc, Tail(sortedOps)))

\* the positions of the operations of the call that were skipped
FailedOfCall ==
  With(JsonClone(PoolHeap, args[1].originalDoc), LAMBDA newDoc :
    FailedTags(newDoc.heap, newDoc.id, SortOperations(Tagged(args[1].operations))))

\* the list with the operations at the given positions removed
RECURSIVE Without(_, _, _)
Without(operations, k, failed) ==
  IF k > Len(operations) THEN <<>>
  ELSE (IF k \in failed THEN <<>> ELSE <<operations[k]>>)
         \o Without(operations, k + 1, failed)

\* C22: an operation that throws while it is applied is skipped alone:
\* applyOperationsToDocument returns, and the tree it returns is the tree
\* the call returns for the list without the operations that threw.
C22_FailureIsolation ==
  Returned("applyOperationsToDocument") =>
    /\ ret[1] # None
    /\ With(applyOperationsToDocument(PoolHeap, args[1].originalDoc,
              Without(args[1].operations, 1, FailedOfCall)),
         LAMBDA expected :
           Val(heap, ret[1][1]) = Val(expected.heap, expected.id))

\* the first operation applied threw, a later one changed the tree
C22_Witness ==
  /\ Returned("applyOperationsToDocument")
  /\ IsTree(args[1].originalDoc)
  /\ Len(args[1].operations) = 2
  /\ FailedOfCall = {k \in {1, 2} : args[1].operations[k] = locals[1][1][1]}
  /\ Cardinality(FailedOfCall) = 1
  /\ Val(heap, ret[1][1]) # Val(PoolHeap, args[1].originalDoc)

\* the call applied one delete_node whose path is not empty and whose
\* parent resolves to a node with a content list
DeleteCase ==
  /\ Returned("applyOperationsToDocument")
  /\ IsTree(args[1].originalDoc)
  /\ Len(args[1].operations) = 1
  /\ args[1].operations[1].type = "delete_node"
  /\ PathOf(args[1].operations[1]) # <<>>
  /\ getNodeAtPath(PoolHeap, args[1].originalDoc,
                   ParentPath(PathOf(args[1].operations[1]))) # THROW

\* the value of the tree without the child at the index under the node at
\* the path
RECURSIVE RemoveChildAt(_, _, _)
RemoveChildAt(value, path, index) ==
  IF path = <<>>
  THEN [value EXCEPT !.content =
          SubSeq(@, 1, index) \o SubSeq(@, index + 2, Len(@))]
  ELSE [value EXCEPT !.content[Head(path) + 1] =
          RemoveChildAt(@, Tail(path), index)]

ReplaceCase ==
  /\ Returned("applyOperationsToDocument")
  /\ IsTree(args[1].originalDoc)
  /\ Len(args[1].operations) = 1
  /\ args[1].operations[1].type = "replace"
  /\ getNodeAtPath(PoolHeap, args[1].originalDoc,
                   PathOf(args[1].operations[1])) # THROW

\* the value of the tree with the given children under the node at the path
\* and nothing else changed
RECURSIVE ReplaceContentAt(_, _, _)
ReplaceContentAt(value, path, children) ==
  IF path = <<>> THEN [value EXCEPT !.content = children]
  ELSE [value EXCEPT !.content[Head(path) + 1] =
          ReplaceContentAt(@, Tail(path), children)]

\* operation.content || ''
ContentOf(operation) ==
  IF operation.content = None THEN <<>> ELSE operation.content[1]

\* C24: a replace at a path that resolves gives the node at the path the
\* inline tokenization of the content string as its children, no children
\* when the string is blank, and leaves the type and attrs of the node and
\* every node outside its subtree as they were; when the node has no
\* content list the tree returned equals the tree given.
C24_ReplaceChildrenOnly ==
  ReplaceCase =>
    LET operation == args[1].operations[1]
        node == getNodeAtPath(PoolHeap, args[1].originalDoc, PathOf(operation))
        before == Val(PoolHeap, args[1].originalDoc)
        after == Val(heap, ret[1][1])
        children == IF TrimIsEmpty(ContentOf(operation)) THEN <<>>
                    ELSE parseContentToNodes(ContentOf(operation))
    IN IF PoolHeap[node].ckind = "list"
       THEN after = ReplaceContentAt(before, PathOf(operation), children)
       ELSE after = before

\* a block with a sibling got new children from a string that is not blank
C24_Witness ==
  /\ ReplaceCase
  /\ PathOf(args[1].operations[1]) = <<0>>
  /\ ~TrimIsEmpty(ContentOf(args[1].operations[1]))
  /\ Len(PoolHeap[args[1].originalDoc].content) = 2
  /\ Val(heap, ret[1][1]) # Val(PoolHeap, args[1].originalDoc)
  /\ Len(Val(heap, ret[1][1]).content[1].content) = 2

\* the call was given a tree that passes the validation: a "doc" object
\* with a content list
ValidTreeCase ==
  /\ Returned("applyOperationsToDocument")
  /\ args[1].originalDoc # NULL
  /\ PoolHeap[args[1].originalDoc].type = "doc"
  /\ PoolHeap[args[1].originalDoc].ckind = "list"

\* every operation of the list is a delete_node with an empty path
OnlyEmptyPathDeletes(operations) ==
  \A k \in 1..Len(operations) :
    operations[k].type = "delete_node" /\ PathOf(operations[k]) = <<>>

\* C25: for a tree that passes the validation and any list of operations,
\* the tree returned has a root of type "doc" with a content list; a
\* delete_node with an empty path leaves the whole tree as it was.
C25_ValidityPreserved ==
  ValidTreeCase =>
    /\ ret[1][1] # NULL
    /\ heap[ret[1][1]].type = "doc"
    /\ heap[ret[1][1]].ckind = "list"
    /\ OnlyEmptyPathDeletes(args[1].operations) =>
         Val(heap, ret[1][1]) = Val(PoolHeap, args[1].originalDoc)

\* a delete_node with an empty path was applied to a valid tree together
\* with an operation on the root itself
C25_Witness ==
  /\ ValidTreeCase
  /\ Len(args[1].operations) = 2
  /\ args[1].operations[1].type = "delete_node"
  /\ PathOf(args[1].operations[1]) = <<>>
  /\ args[1].operations[2].type = "modify_node"
  /\ PathOf(args[1].operations[2]) = <<>>
  /\ heap[ret[1][1]].attrs # None

\* the positions of the asterisks of a text
Asterisks(text) == {k \in 1..Len(text) : text[k] = "*"}

\* a text of letters, spaces and asterisks with one opening delimiter and
\* none to close it: a single "*", or a single "**"
UnbalancedCase ==
  /\ Returned("parseInlineMarkdown")
  /\ \A k \in 1..Len(args[1]) : args[1][k] \in {"a", " ", "*"}
  /\ \/ Cardinality(Asterisks(args[1])) = 1
     \/ \E k \in 1..(Len(args[1]) - 1) : Asterisks(args[1]) = {k, k + 1}

\* the texts of the tokens, one after the other
RECURSIVE TokenTexts(_)
TokenTexts(tokens) ==
  IF tokens = <<>> THEN <<>> ELSE Head(tokens).text \o TokenTexts(Tail(tokens))

\* C26: a text whose only delimiter is an opening "*" or "**" that nothing
\* closes comes out as text without marks: no token has a mark, none has an
\* empty text, and the texts of the tokens together are the input.
C26_UnbalancedPlain ==
  UnbalancedCase =>
    /\ \A k \in 1..Len(ret[1][1]) :
         /\ ret[1][1][k].marks = None
         /\ ret[1][1][k].text # <<>>
    /\ TokenTexts(ret[1][1]) = args[1]

\* the block types whose lines never join a block
SingleLineTypes == {"heading", "code_block", "horizontal_rule", "empty"}

\* the block types whose consecutive lines form one block
MergingTypes == {"paragraph", "list_item", "blockquote"}

\* C27: in the blocks parseToBlocks returns, a heading, code_block,
\* horizontal_rule or empty block is one line; no two neighbours are both
\* paragraphs, both list items or both blockquotes; and a list_item block
\* has the attrs of its first line, whatever the kinds of its other lines.
C27_BlockBoundaries ==
  Returned("parseToBlocks") =>
    LET blocks == ret[1][1] IN
    /\ \A k \in 1..Len(blocks) :
         /\ blocks[k].type \in SingleLineTypes =>
              /\ blocks[k].startLine = blocks[k].endLine
              /\ Len(blocks[k].content) = 1
         /\ blocks[k].type = "list_item" =>
              blocks[k].attrs = identifyBlock(blocks[k].content[1]).attrs
    /\ \A k \in 1..(Len(blocks) - 1) :
         blocks[k].type \in MergingTypes => blocks[k + 1].type # blocks[k].type

\* a bullet line and an ordered line made one list_item block with the
\* attrs of the bullet line, and a heading follows it
C27_Witness ==
  /\ Returned("parseToBlocks")
  /\ Len(ret[1][1]) = 2
  /\ ret[1][1][1].type = "list_item"
  /\ Len(ret[1][1][1].content) = 2
  /\ identifyBlock(ret[1][1][1].content[2]).attrs # ret[1][1][1].attrs
  /\ ret[1][1][2].type = "heading"

\* the analysis analyzeDocument returned without throwing
Analyzed ==
  /\ Returned("analyzeDocument")
  /\ ~ret[1][1].threw

\* the number of characters of the text nodes of a tree value
RECURSIVE TextLengthOf(_)
RECURSIVE TextLengthOfAll(_, _)
TextLengthOf(value) ==
  IF value.text # None /\ value.text[1] # <<>> THEN Len(value.text[1])
  ELSE TextLengthOfAll(value.content, Len(value.content))

\* the same for the first n values of a list
TextLengthOfAll(values, n) ==
  IF n = 0 THEN 0 ELSE TextLengthOfAll(values, n - 1) + TextLengthOf(values[n])

\* the number of characters of the text nodes before the node at the path,
\* in document order
RECURSIVE TextBefore(_, _)
TextBefore(value, path) ==
  IF path = <<>> THEN 0
  ELSE TextLengthOfAll(value.content, Head(path))
         + TextBefore(value.content[Head(path) + 1], Tail(path))

\* nodeMap.get(path.join('.'))
InfoAt(analysis, path) ==
  analysis.nodeMap[CHOOSE k \in 1..Len(analysis.nodeMap) :
                     analysis.nodeMap[k].path = path]

\* the sum of the textLength of the entries at the first n of the paths
RECURSIVE SumTextLengths(_, _, _)
SumTextLengths(analysis, paths, n) ==
  IF n = 0 THEN 0
  ELSE SumTextLengths(analysis, paths, n - 1) + InfoAt(analysis, paths[n]).textLength

\* C28: in the analysis of a tree, the textOffset of every node is the
\* number of characters of the text nodes before it in document order; the
\* textLength of a node with children is the sum of its children's; the
\* textPositions entries start at 0, each starts where the one before it
\* ends and is as long as its text; so every offset below the total text
\* length lies in exactly one entry.
C28_OffsetsConsistent ==
  Analyzed =>
    LET analysis == ret[1][1].analysis
        total == ret[1][1].textOffset
        tree == Val(heap, args[1])
        positions == analysis.textPositions
    IN /\ \A k \in 1..Len(analysis.nodeMap) :
            LET info == analysis.nodeMap[k] IN
            /\ info.textOffset = TextBefore(tree, info.path)
            /\ info.children # <<>> =>
                 info.textLength =
                   SumTextLengths(analysis, info.children, Len(info.children))
       /\ total = TextLengthOf(tree)
       /\ \A k \in 1..Len(positions) :
            /\ positions[k].start = (IF k = 1 THEN 0 ELSE positions[k - 1].end)
            /\ positions[k].end - positions[k].start = Len(positions[k].text)
       /\ \A offset \in 0..(total - 1) :
            Cardinality({k \in 1..Len(positions) :
                           positions[k].start <= offset
                             /\ offset < positions[k].end}) = 1

\* a tree of three blocks, nested ones and one without text among them,
\* with several text nodes
C28_Witness ==
  /\ Analyzed
  /\ Len(heap[args[1]].content) = 3
  /\ heap[heap[args[1]].content[1]].type = "blockquote"
  /\ heap[heap[args[1]].content[2]].content = <<>>
  /\ Len(ret[1][1].analysis.textPositions) = 4
  /\ ret[1][1].textOffset = 5

\* the paths of the block-level nodes of a tree value in document order: a
\* node before its descendants, siblings by increasing index
RECURSIVE BlockPathsInOrder(_, _)
RECURSIVE BlockPathsOfChildren(_, _, _)
BlockPathsInOrder(value, path) ==
  (IF value.type \in BlockLevelTypes THEN <<path>> ELSE <<>>)
    \o BlockPathsOfChildren(value.content, path, 0)

\* the same for the children from the 0-based index on
BlockPathsOfChildren(values, path, index) ==
  IF index >= Len(values) THEN <<>>
  ELSE BlockPathsInOrder(values[index + 1], Append(path, index))
         \o BlockPathsOfChildren(values, path, index + 1)

\* the paths of the entries of blockStructure, in its order
BlockStructurePaths(analysis) ==
  [k \in 1..Len(analysis.blockStructure) |-> analysis.blockStructure[k].path]

\* C29: blockStructure holds the nodes of type paragraph, heading,
\* list_item, code_block or blockquote at any depth, each once, in document
\* order: a block-level node before its block-level descendants, siblings
\* by increasing index.
C29_BlockStructureOrder ==
  Analyzed =>
    BlockStructurePaths(ret[1][1].analysis) = BlockPathsInOrder(Val(heap, args[1]), <<>>)

\* buildBlockMapping returned a mapping
Mapped ==
  /\ Returned("buildBlockMapping")
  /\ ~ret[1][1].threw

\* the paths of the children of the root with a block-level type, by index
TreeBlockPaths ==
  LET content == heap[args[1].proseMirrorDoc].content IN
  SelectSeq([i \in 1..Len(content) |-> <<i - 1>>],
            LAMBDA p : isBlockLevelNode(heap[content[p[1] + 1]].type))

\* the tree blocks with their texts, as the alignment is given them
TreeBlocksOfCall ==
  enrichNodesWithContent(heap,
    extractOrderedBlockNodes(
      analyzeDocumentStructure(heap, args[1].proseMirrorDoc).analysis),
    args[1].proseMirrorDoc)

\* the score of every pair of a Markdown block and a tree block
ScoresOfCall(blocks) ==
  [i \in 1..Len(args[1].markdownBlocks), k \in 1..Len(blocks) |->
     calculateContentSimilarity(args[1].markdownBlocks[i], blocks[k])]

\* the tree blocks Markdown block i may take when it is served: not taken
\* by a block before it, of a compatible type, with a score above 0.7
AcceptableFor(i, blocks, scores) ==
  LET mapping == ret[1][1].mapping
      taken == {mapping[j][1].path : j \in {j \in 1..(i - 1) : mapping[j] # None}}
  IN {k \in 1..Len(blocks) :
        /\ blocks[k].path \notin taken
        /\ getTypeMatchScore(args[1].markdownBlocks[i].type, blocks[k].type).n # 0
        /\ FracGreater(scores[i, k], Frac(7, 10))}

\* k has the best score of the candidates and is the first of those with it
IsBestOf(k, candidates, i, scores) ==
  /\ k \in candidates
  /\ \A q \in candidates :
       /\ ~FracGreater(scores[i, q], scores[i, k])
       /\ scores[i, q] = scores[i, k] => k <= q

====
